---------------------------- MODULE Spec2Model ----------------------------
(***************************************************************************)
(* A model of the mcp-sqlify data layer: the Table Materializer            *)
(* (SQLiteConverter), the store-reflecting Schema Normalizer               *)
(* (SchemaLoader) and the Dataset Access Layer (WikiSQLDataset).           *)
(*                                                                         *)
(* Program text is modelled as sequences of one-character strings, so that *)
(* splitting, quoting and number formatting are computed, not assumed.     *)
(***************************************************************************)
EXTENDS Integers, Sequences, FiniteSets, TLC

(***************************************************************************)
(* Bounds of the model.                                                    *)
(***************************************************************************)
MaxConns == 2
MaxLists == 2

(***************************************************************************)
(* Text helpers.                                                           *)
(***************************************************************************)
Alphabet ==
  << " ", "'", "_", "0", "1", "2", "3", "4", "5", "6", "7", "8", "9",
     "a", "b", "c", "d", "e", "h", "i", "l", "m", "n", "o", "s", "t", "v",
     "w", "x" >>

\* ord(c): the code point of a character, here its rank in the model's alphabet.
Ord(c) == CHOOSE i \in 1..Len(Alphabet) : Alphabet[i] = c

DigitChars == << "0", "1", "2", "3", "4", "5", "6", "7", "8", "9" >>

IsDigit(c) == \E i \in 1..10 : DigitChars[i] = c

DigitVal(c) == (CHOOSE i \in 1..10 : DigitChars[i] = c) - 1

\* str(n) for a non-negative integer n.
RECURSIVE NatStr(_)
NatStr(n) == IF n < 10 THEN << DigitChars[n + 1] >>
             ELSE NatStr(n \div 10) \o << DigitChars[(n % 10) + 1] >>

\* The value of a non-empty sequence of digits.
RECURSIVE DigitsVal(_)
DigitsVal(s) == IF Len(s) = 0 THEN 0
                ELSE DigitsVal(SubSeq(s, 1, Len(s) - 1)) * 10 + DigitVal(s[Len(s)])

IsNumeral(s) == Len(s) > 0 /\ \A i \in 1..Len(s) : IsDigit(s[i])

\* str.split(): the maximal runs of non-blank characters, in order.
RECURSIVE SplitFrom(_, _, _)
SplitFrom(s, i, cur) ==
  IF i > Len(s) THEN (IF Len(cur) > 0 THEN << cur >> ELSE << >>)
  ELSE IF s[i] = " "
       THEN (IF Len(cur) > 0 THEN << cur >> ELSE << >>) \o SplitFrom(s, i + 1, << >>)
       ELSE SplitFrom(s, i + 1, Append(cur, s[i]))

Split(s) == SplitFrom(s, 1, << >>)

\* seq[:n]
Take(s, n) == SubSeq(s, 1, IF n < Len(s) THEN n ELSE Len(s))

Abs(n) == IF n < 0 THEN -n ELSE n

Min(a, b) == IF a < b THEN a ELSE b

\* A replace that leaves the quotes as they are.
EscapeQuotesAsIs(s) == s

\* str.replace("'", "''")
RECURSIVE EscapeQuotes(_)
EscapeQuotes(s) ==
  IF Len(s) = 0 THEN << >>
  ELSE (IF s[1] = "'" THEN << "'", "'" >> ELSE << s[1] >>) \o EscapeQuotes(Tail(s))

\* The store's reading of the body of a quoted literal: '' stands for '.
RECURSIVE UnescapeQuotes(_)
UnescapeQuotes(s) ==
  IF Len(s) = 0 THEN << >>
  ELSE IF Len(s) >= 2 /\ s[1] = "'" /\ s[2] = "'"
       THEN << "'" >> \o UnescapeQuotes(SubSeq(s, 3, Len(s)))
       ELSE << s[1] >> \o UnescapeQuotes(Tail(s))

(***************************************************************************)
(* Examples.  A row value is a string, an integer or None.                 *)
(***************************************************************************)
StrV(s) == [k |-> "str", s |-> s, n |-> 0]
IntV(n) == [k |-> "int", s |-> << >>, n |-> n]
NoneV == [k |-> "none", s |-> << >>, n |-> 0]

\* The examples are held by reference: a result's raw_data is the very object
\* that was passed in.
ExampleRefs == { "plain", "samekey", "other", "dupkey", "keyed", "dupheader", "nosql" }

ExampleOf(ref) ==
  LET who_is_al_now == << "w", "h", "o", " ", "i", "s", " ", " ", "a", "l", " ", "n", "o", "w" >>
      \* A two-column table whose first column is a number: it becomes the
      \* primary key.
      ExPlain ==
        [question |-> who_is_al_now,
         header |-> << << "i", "d" >>, << "n", "a", "m", "e" >> >>, types |-> << "number", "text" >>,
         rows |-> << << StrV(<< "1" >>), StrV(<< "a", "l" >>) >>,
                     << StrV(<< "2" >>), StrV(<< "b", "o" >>) >> >>,
         hasSql |-> TRUE, human |-> StrV(<< "a", " ", "t", "a", "b", "l", "e" >>)]
      \* Same header and same first three question words as ExPlain, other
      \* types, rows with quotes, None and an integer, no human_readable.
      ExSameKey ==
        [question |-> << "w", "h", "o", " ", "i", "s", " ", "a", "l", " ", "t", "h", "e", "n" >>,
         header |-> << << "i", "d" >>, << "n", "a", "m", "e" >> >>, types |-> << "text", "Text" >>,
         rows |-> << << StrV(<< "x" >>), StrV(<< "o", "'", "b" >>) >>,
                     << NoneV, IntV(7) >>,
                     << StrV(<< "'", "'" >>), StrV(<< "'", "a", "'" >>) >> >>,
         hasSql |-> TRUE, human |-> NoneV]
      \* Another header, one row; the query text names a column "tables".
      ExOther ==
        [question |-> who_is_al_now,
         header |-> << << "d", "i" >>, << "n", "a", "m", "e" >> >>, types |-> << "real", "date" >>,
         rows |-> << << StrV(<< "3" >>), StrV(<< "a" >>) >> >>,
         hasSql |-> TRUE, human |-> StrV(<< "t", "a", "b", "l", "e", "s", " ", "t", "a", "b", "l", "e" >>)]
      \* The number column at index 0 repeats a value: the second INSERT is
      \* rejected.
      ExDupKey ==
        [question |-> << "w", "h", "a", "t" >>,
         header |-> << << "i", "d" >>, << "v" >> >>, types |-> << "Number", "text" >>,
         rows |-> << << StrV(<< "1" >>), StrV(<< "a" >>) >>,
                     << StrV(<< "0", "1" >>), StrV(<< "b" >>) >> >>,
         hasSql |-> TRUE, human |-> NoneV]
      \* Same header and same question as ExDupKey, one row: it converts.
      ExKeyed ==
        [question |-> << "w", "h", "a", "t" >>,
         header |-> << << "i", "d" >>, << "v" >> >>, types |-> << "number", "text" >>,
         rows |-> << << StrV(<< "5" >>), StrV(<< "k" >>) >> >>,
         hasSql |-> TRUE, human |-> NoneV]
      \* A repeated header name: the CREATE statement is rejected.
      ExDupHeader ==
        [question |-> << "w", "h", "e", "n" >>,
         header |-> << << "v" >>, << "v" >> >>, types |-> << "text", "text" >>,
         rows |-> << << StrV(<< "a" >>), StrV(<< "b" >>) >> >>,
         hasSql |-> TRUE, human |-> NoneV]
      \* An example without the 'sql' entry.
      ExNoSql ==
        [question |-> << "s", "h", "o", "w", " ", "a", "l", "l" >>,
         header |-> << << "v" >> >>, types |-> << "text" >>,
         rows |-> << << StrV(<< "a" >>) >> >>,
         hasSql |-> FALSE, human |-> NoneV]
  IN CASE ref = "plain" -> ExPlain
       [] ref = "samekey" -> ExSameKey
       [] ref = "other" -> ExOther
       [] ref = "dupkey" -> ExDupKey
       [] ref = "keyed" -> ExKeyed
       [] ref = "dupheader" -> ExDupHeader
       [] ref = "nosql" -> ExNoSql

\* The lists handed to convert_examples: empty, all good, a failure first, in
\* the middle and last, two examples that derive the same table name, and a
\* failing example after one that derives the same table name.
Batches ==
  { << >>,
    << "plain" >>,
    << "other", "samekey" >>,
    << "samekey", "other", "plain" >>,
    << "dupkey", "plain" >>,
    << "plain", "dupheader", "other" >>,
    << "samekey", "nosql", "plain" >>,
    << "other", "dupkey" >>,
    << "plain", "keyed", "dupkey" >> }


(***************************************************************************)
(* State.                                                                  *)
(***************************************************************************)
VARIABLES
  hashSalt,    \* the per-process randomisation of Python's hash()
  db,          \* the store file: the committed tables, in catalog order
  convConn,    \* SQLiteConverter.conn: 0 for None, else a connection number
  convConns,   \* the status of every connection the converter has opened
  convTxn,     \* the open transaction of convConn, with its uncommitted view
  convScope,   \* whether execution is inside `with converter:`
  convEntry,   \* the connection the last __enter__ opened (0: none yet)
  convRet,     \* the outcome of the converter's last method call
  convPrev,    \* the outcome of the call before that, if a convert_example
  ldConn,      \* SchemaLoader.conn: 0 for None, else a connection number
  ldConns,     \* the status of every connection the loader has opened
  ldScope,     \* whether execution is inside `with loader:`
  ldEntry,     \* the connection the last __enter__ opened (0: none yet)
  ldRet,       \* the outcome of the loader's last load_schema
  data_root,   \* whether the WikiSQLDataset was given a data_root
  provider,    \* the dataset as the provider holds it: split name -> items
  provUp,      \* whether the provider can be reached right now
  dsLoaded,    \* WikiSQLDataset._dataset is not None
  cache,       \* WikiSQLDataset.data_cache: key -> list object
  heap,        \* the list objects load_split has created: object -> items
  made,        \* how many lists load_split has created under each key
  returned,    \* every (split, limit, object) a load_split call has returned
  dsRet,       \* the outcome of the dataset's last method call
  genRet,      \* the last call of one of the converter's generate_* methods
  wlExample,   \* WikiSQLSchemaLoader.example
  wlRet,       \* the outcome of the last schema request made of an example
  OPENAI_API_KEY, \* config.OPENAI_API_KEY as the import of src.config left it
  generator,   \* the SQLGenerator the program holds, if one was constructed
  agRet,       \* the outcome of the last SQLGenerator call
  cliRet       \* the last run of a command line: arguments, output, exit code

convVars == << hashSalt, db, convConn, convConns, convTxn, convScope, convEntry,
               convRet, convPrev >>

ldVars == << ldConn, ldConns, ldScope, ldEntry, ldRet >>

dsVars == << data_root, provider, provUp, dsLoaded, cache, heap, made, returned, dsRet >>

fnVars == << genRet, wlExample, wlRet >>

appVars == << OPENAI_API_KEY, generator, agRet, cliRet >>

vars == << convVars, ldVars, dsVars, fnVars, appVars >>

(***************************************************************************)
(* SQLiteConverter: name derivation and statement generation.              *)
(***************************************************************************)
\* str.lower() on the type tags that occur.
Lower(t) == CASE t = "Text" -> "text"
              [] t = "Number" -> "number"
              [] OTHER -> t

\* A type mapping that knows no REAL.
GetSqlTypeNoReal(t) == IF Lower(t) = "number" THEN "INTEGER" ELSE "TEXT"

\* TYPE_MAP.get(wikisql_type.lower(), 'TEXT')
GetSqlType(t) == CASE Lower(t) = "text" -> "TEXT"
                   [] Lower(t) = "number" -> "INTEGER"
                   [] Lower(t) = "real" -> "REAL"
                   [] Lower(t) = "date" -> "TEXT"
                   [] OTHER -> "TEXT"

RECURSIVE SumOrd(_)
SumOrd(s) == IF Len(s) = 0 THEN 0 ELSE Ord(s[1]) + SumOrd(Tail(s))

RECURSIVE SumHash(_)
SumHash(t) == IF Len(t) = 0 THEN 0 ELSE SumOrd(t[1]) + SumHash(Tail(t))

\* hash(tuple of str): a stand-in for the interpreter's hash.  It is a signed
\* integer that depends on the strings of the tuple and on the process's salt;
\* distinct tuples may collide.
PyHash(t, salt) == SumHash(t) * (IF salt < 0 THEN -1 ELSE 1) + salt

HashBuckets == 10000

\* A name derived from the header and the whole question.
GenerateTableNameAllWords(ex, salt) ==
  << "e", "x", "_" >>
    \o NatStr(Abs(PyHash(ex.header \o Split(ex.question), salt)) % HashBuckets)

\* generate_table_name
GenerateTableName(ex, salt) ==
  LET headers == ex.header
      keywords == Take(Split(ex.question), 3)
  IN << "e", "x", "_" >> \o NatStr(Abs(PyHash(headers \o keywords, salt)) % HashBuckets)

\* The column definitions of generate_create_table_sql: zip(headers, types).
ColumnDefs(ex) ==
  [i \in 1..Min(Len(ex.header), Len(ex.types)) |->
     [name |-> ex.header[i],
      type |-> GetSqlType(ex.types[i]),
      pk |-> (i = 1 /\ Lower(ex.types[i]) = "number"),
      notnull |-> FALSE]]

\* A VALUES list whose strings are quoted with their quotes left out.
SqlLiteralStripped(v) ==
  CASE v.k = "str" -> [q |-> "quoted", text |-> SelectSeq(v.s, LAMBDA c : c # "'")]
    [] v.k = "none" -> [q |-> "null", text |-> << "N", "U", "L", "L" >>]
    [] OTHER -> [q |-> "bare", text |-> NatStr(v.n)]

\* One value of the VALUES list.
SqlLiteral(v) ==
  CASE v.k = "str" -> [q |-> "quoted", text |-> EscapeQuotes(v.s)]
    [] v.k = "none" -> [q |-> "null", text |-> << "N", "U", "L", "L" >>]
    [] OTHER -> [q |-> "bare", text |-> NatStr(v.n)]

Stmt(op, table, cols, names, vals) ==
  [op |-> op, table |-> table, cols |-> cols, names |-> names, vals |-> vals]

\* A DROP statement that names the table without its derived number.
DropStmtPrefixOnly(name) == Stmt("DROP", Take(name, 3), << >>, << >>, << >>)

\* DROP TABLE IF EXISTS "<name>"
DropStmt(name) == Stmt("DROP", name, << >>, << >>, << >>)

\* generate_create_table_sql
GenerateCreateTableSql(ex, name) == Stmt("CREATE", name, ColumnDefs(ex), << >>, << >>)

\* generate_insert_sql: one statement per row, in row order.
GenerateInsertSql(ex, name) ==
  [r \in 1..Len(ex.rows) |->
     Stmt("INSERT", name, << >>, ex.header,
          [j \in 1..Len(ex.rows[r]) |-> SqlLiteral(ex.rows[r][j])])]

CommitStmt == Stmt("COMMIT", << >>, << >>, << >>, << >>)

(***************************************************************************)
(* The store as the converter's connection drives it (sqlite3 with the     *)
(* module's default transaction control): DROP and CREATE take effect at   *)
(* once unless a transaction is open, the first INSERT opens a             *)
(* transaction, commit() makes its view the committed one, and close()     *)
(* discards an open transaction.                                           *)
(***************************************************************************)
NoTable == [exists |-> FALSE, name |-> << >>, cols |-> << >>, rows |-> << >>, fks |-> << >>]

Table(name, cols) ==
  [exists |-> TRUE, name |-> name, cols |-> cols, rows |-> << >>, fks |-> << >>]

HasTable(cat, name) == \E i \in 1..Len(cat) : cat[i].name = name

Lookup(cat, name) ==
  IF HasTable(cat, name)
  THEN cat[CHOOSE i \in 1..Len(cat) : cat[i].name = name]
  ELSE NoTable

RECURSIVE Without(_, _)
Without(cat, name) ==
  IF Len(cat) = 0 THEN << >>
  ELSE (IF cat[1].name = name THEN << >> ELSE << cat[1] >>) \o Without(Tail(cat), name)

Replace(cat, t) == [i \in 1..Len(cat) |-> IF cat[i].name = t.name THEN t ELSE cat[i]]

TextS(s) == [k |-> "text", s |-> s, n |-> 0]
IntegerS(n) == [k |-> "integer", s |-> << >>, n |-> n]
NullS == [k |-> "null", s |-> << >>, n |-> 0]

\* The value a literal of the VALUES list denotes.
LiteralValue(lit) ==
  CASE lit.q = "quoted" -> TextS(UnescapeQuotes(lit.text))
    [] lit.q = "null" -> NullS
    [] OTHER -> IntegerS(DigitsVal(lit.text))

\* Column affinity: a numeric column stores a well-formed numeral as a number,
\* a text column stores a number as its text.
Affinity(type, v) ==
  CASE type \in {"INTEGER", "REAL"} /\ v.k = "text" /\ IsNumeral(v.s) -> IntegerS(DigitsVal(v.s))
    [] type = "TEXT" /\ v.k = "integer" -> TextS(NatStr(v.n))
    [] OTHER -> v

NamesUnique(names) ==
  \A i, j \in 1..Len(names) : names[i] = names[j] => i = j

ColNames(cols) == [i \in 1..Len(cols) |-> cols[i].name]

\* The row an INSERT statement builds for table t: every column takes the value
\* listed for it, or NULL.
BuiltRow(t, st) ==
  [c \in 1..Len(t.cols) |->
     IF \E p \in 1..Len(st.names) : st.names[p] = t.cols[c].name
     THEN Affinity(t.cols[c].type,
                   LiteralValue(st.vals[CHOOSE p \in 1..Len(st.names) :
                                          st.names[p] = t.cols[c].name]))
     ELSE NullS]

MaxKey(t, c) ==
  LET keys == { t.rows[r][c].n : r \in 1..Len(t.rows) } \cup {0}
  IN CHOOSE m \in keys : \A x \in keys : x <= m

\* An INTEGER PRIMARY KEY column takes the next free number for NULL.
KeyedRow(t, row) ==
  [c \in 1..Len(row) |->
     IF t.cols[c].pk /\ row[c].k = "null" THEN IntegerS(MaxKey(t, c) + 1) ELSE row[c]]

\* Whether the store rejects the statement, given the tables the connection sees.
Rejects(cat, st) ==
  CASE st.op = "CREATE" -> Len(st.cols) = 0 \/ ~NamesUnique(ColNames(st.cols))
    [] st.op = "INSERT" ->
         LET t == Lookup(cat, st.table)
         IN \/ ~t.exists
            \/ Len(st.vals) # Len(st.names)
            \/ ~NamesUnique(st.names)
            \/ \E p \in 1..Len(st.names) :
                 \A c \in 1..Len(t.cols) : t.cols[c].name # st.names[p]
            \/ LET row == BuiltRow(t, st)
               IN \E c \in 1..Len(t.cols) :
                    /\ t.cols[c].pk
                    /\ \/ row[c].k = "text"
                       \/ /\ row[c].k = "integer"
                          /\ \E r \in 1..Len(t.rows) : t.rows[r][c] = row[c]
    [] OTHER -> FALSE

\* The tables the connection sees after an accepted statement.
Applied(cat, st) ==
  CASE st.op = "DROP" -> Without(cat, st.table)
    [] st.op = "CREATE" ->
         IF HasTable(cat, st.table) THEN cat ELSE Append(cat, Table(st.table, st.cols))
    [] st.op = "INSERT" ->
         LET t == Lookup(cat, st.table)
         IN Replace(cat, [t EXCEPT !.rows = Append(t.rows, KeyedRow(t, BuiltRow(t, st)))])
    [] OTHER -> cat

\* The connection's state: the committed tables, whether a transaction is open,
\* the tables as the connection sees them, the statements issued, the failure.
Engine(committed, txn) ==
  [db |-> committed, open |-> txn.open,
   view |-> IF txn.open THEN txn.view ELSE committed,
   log |-> << >>, failed |-> FALSE]

LogEntry(st, idx) ==
  [idx |-> idx, op |-> st.op, table |-> st.table, cols |-> st.cols,
   names |-> st.names, vals |-> st.vals]

\* cursor.execute(st) / conn.commit(), for the idx-th example of the call.
Execute(e, st, idx) ==
  LET logged == Append(e.log, LogEntry(st, idx))
  IN IF e.failed THEN e
     ELSE IF st.op = "COMMIT"
          THEN [e EXCEPT !.db = e.view, !.open = FALSE, !.log = logged]
     ELSE IF Rejects(e.view, st)
          THEN [e EXCEPT !.open = (e.open \/ st.op = "INSERT"), !.log = logged,
                         !.failed = TRUE]
     ELSE LET now == Applied(e.view, st)
              opens == e.open \/ st.op = "INSERT"
          IN [e EXCEPT !.view = now, !.open = opens,
                       !.db = IF opens THEN e.db ELSE now,
                       !.log = logged]

RECURSIVE ExecuteAll(_, _, _)
ExecuteAll(e, stmts, idx) ==
  IF Len(stmts) = 0 THEN e
  ELSE ExecuteAll(Execute(e, stmts[1], idx), Tail(stmts), idx)

(***************************************************************************)
(* SQLiteConverter: conversion.                                            *)
(***************************************************************************)
\* The statements with commit() issued before the rows are inserted.
ConvertStatementsCommitEarly(ex, name) ==
  << DropStmt(name), GenerateCreateTableSql(ex, name), CommitStmt >>
    \o GenerateInsertSql(ex, name)

\* The statements without the DROP, relying on CREATE TABLE IF NOT EXISTS.
ConvertStatementsNoDrop(ex, name) ==
  << GenerateCreateTableSql(ex, name) >> \o GenerateInsertSql(ex, name) \o << CommitStmt >>

\* The statements convert_example issues, in order; commit() comes last.
ConvertStatements(ex, name) ==
  << DropStmt(name), GenerateCreateTableSql(ex, name) >>
    \o GenerateInsertSql(ex, name) \o << CommitStmt >>

\* The salts of the processes considered.
HashSalts == { -4, 3 }

\* str.replace(old, new): every occurrence of old, found from left to right
\* without overlap, becomes new.
RECURSIVE StrReplace(_, _, _)
StrReplace(s, old, new) ==
  IF Len(s) < Len(old) THEN s
  ELSE IF SubSeq(s, 1, Len(old)) = old
       THEN new \o StrReplace(SubSeq(s, Len(old) + 1, Len(s)), old, new)
       ELSE << s[1] >> \o StrReplace(Tail(s), old, new)

\* target_sql: None without a human_readable text, else that text with 'table'
\* replaced by the table name.
TargetSql(ex, name) ==
  IF ex.human.k = "none" THEN NoneV
  ELSE StrV(StrReplace(ex.human.s, << "t", "a", "b", "l", "e" >>, name))

\* What convert_example derives from the example before it touches the store:
\* the table name, the CREATE statement and the statements to issue.
Prepare(ex, salt) ==
  LET name == GenerateTableName(ex, salt)
  IN [table_name |-> name,
      create_sql |-> GenerateCreateTableSql(ex, name),
      statements |-> ConvertStatements(ex, name),
      target_sql |-> TargetSql(ex, name)]

Prepared ==
  [salt \in HashSalts |-> [ref \in ExampleRefs |-> Prepare(ExampleOf(ref), salt)]]

\* convert_example on a connected converter, as the idx-th example of a call.
\* The result dictionary is built after commit(); reading example['sql'] fails
\* there for an example that has no such entry.
ConvertOne(e, ref, salt, idx) ==
  LET ex == ExampleOf(ref)
      plan == Prepared[salt][ref]
      done == ExecuteAll([e EXCEPT !.failed = FALSE], plan.statements, idx)
      ok == ~done.failed /\ ex.hasSql
  IN [eng |-> done, ok |-> ok,
      result |-> [raw_data |-> ref, table_name |-> plan.table_name,
                  create_sql |-> plan.create_sql, target_sql |-> plan.target_sql]]

\* convert_examples: the loop over the examples; a failure leaves the loop and
\* the function, so that no list is returned.
RECURSIVE ConvertFrom(_, _, _, _, _)
ConvertFrom(e, batch, salt, i, results) ==
  IF i > Len(batch)
  THEN [eng |-> e, ok |-> TRUE, failedAt |-> 0, results |-> results]
  ELSE LET one == ConvertOne(e, batch[i], salt, i)
       IN IF one.ok
          THEN ConvertFrom(one.eng, batch, salt, i + 1, Append(results, one.result))
          ELSE [eng |-> one.eng, ok |-> FALSE, failedAt |-> i, results |-> << >>]

\* A loop that skips an example whose conversion fails and carries on.
RECURSIVE ConvertSkipping(_, _, _, _, _)
ConvertSkipping(e, batch, salt, i, results) ==
  IF i > Len(batch)
  THEN [eng |-> e, ok |-> TRUE, failedAt |-> 0, results |-> results]
  ELSE LET one == ConvertOne(e, batch[i], salt, i)
       IN ConvertSkipping(one.eng, batch, salt, i + 1,
                          IF one.ok THEN Append(results, one.result) ELSE results)

ConvertManyKeepGoing(e, batch, salt) == ConvertSkipping(e, batch, salt, 1, << >>)

ConvertMany(e, batch, salt) == ConvertFrom(e, batch, salt, 1, << >>)

SampleLimit == 5

NoTxn == [open |-> FALSE, view |-> << >>]

TxnOf(e) == IF e.open THEN [open |-> TRUE, view |-> e.view] ELSE NoTxn

\* The record of a call: the table field is the converted table as the
\* database file holds it after the call.
NoCall ==
  [op |-> "none", batch |-> << >>, ok |-> TRUE, failedAt |-> 0, results |-> << >>,
   log |-> << >>, table |-> NoTable]

Brief(ret) == [op |-> ret.op, batch |-> ret.batch, ok |-> ret.ok, table |-> ret.table]

\* What is remembered of the call before the last one: the outcome of a
\* convert_example, nothing of any other call.
Remember(ret) == IF ret.op = "convert_example" THEN Brief(ret) ELSE Brief(NoCall)

\* _connect_if_needed
ConnectIfNeeded(conn, conns) ==
  IF conn = 0
  THEN [conn |-> Len(conns) + 1, conns |-> Append(conns, "open")]
  ELSE [conn |-> conn, conns |-> conns]

CanConnect(conn, conns) == conn # 0 \/ Len(conns) < MaxConns

(***************************************************************************)
(* SQLiteConverter: the operations.                                        *)
(***************************************************************************)
\* __enter__: a new connection replaces whatever self.conn held; a connection
\* that is replaced while open loses its last reference and is finalised by the
\* interpreter, which discards its open transaction.
ConvEnter ==
  /\ convScope = "out"
  /\ Len(convConns) < MaxConns
  /\ convConns' = Append([c \in 1..Len(convConns) |->
                            IF c = convConn THEN "dropped" ELSE convConns[c]], "open")
  /\ convConn' = Len(convConns) + 1
  /\ convEntry' = Len(convConns) + 1
  /\ convTxn' = NoTxn
  /\ convScope' = "in"
  /\ UNCHANGED << hashSalt, db, convRet, convPrev, ldVars, dsVars, fnVars, appVars >>

\* A close() that leaves the connection as it is.
CloseConnForgotten(conns, conn) == conns

\* conn.close()
CloseConn(conns, conn) == [conns EXCEPT ![conn] = "closed"]

\* __exit__, whatever the body did: close() and forget the connection.
ConvExit ==
  /\ convScope = "in"
  /\ IF convConn # 0
     THEN /\ convConns' = CloseConn(convConns, convConn)
          /\ convConn' = 0
          /\ convTxn' = NoTxn
     ELSE UNCHANGED << convConns, convConn, convTxn >>
  /\ convScope' = "out"
  /\ UNCHANGED << hashSalt, db, convEntry, convRet, convPrev, ldVars, dsVars, fnVars, appVars >>

ConvertExample(ref) ==
  /\ CanConnect(convConn, convConns)
  /\ LET c == ConnectIfNeeded(convConn, convConns)
         one == ConvertOne(Engine(db, convTxn), ref, hashSalt, 1)
     IN /\ convConn' = c.conn
        /\ convConns' = c.conns
        /\ db' = one.eng.db
        /\ convTxn' = TxnOf(one.eng)
        /\ convRet' = [op |-> "convert_example", batch |-> << ref >>, ok |-> one.ok,
                       failedAt |-> IF one.ok THEN 0 ELSE 1,
                       results |-> IF one.ok THEN << one.result >> ELSE << >>,
                       log |-> one.eng.log,
                       table |-> Lookup(one.eng.db, one.result.table_name)]
  /\ convPrev' = Remember(convRet)
  /\ UNCHANGED << hashSalt, convScope, convEntry, ldVars, dsVars, fnVars, appVars >>

\* The list is empty: the loop body, and with it _connect_if_needed, never runs.
ConvertExamples(batch) ==
  /\ CanConnect(convConn, convConns)
  /\ LET many == ConvertMany(Engine(db, convTxn), batch, hashSalt)
         c == IF Len(batch) = 0 THEN [conn |-> convConn, conns |-> convConns]
              ELSE ConnectIfNeeded(convConn, convConns)
     IN /\ convConn' = c.conn
        /\ convConns' = c.conns
        /\ db' = many.eng.db
        /\ convTxn' = TxnOf(many.eng)
        /\ convRet' = [op |-> "convert_examples", batch |-> batch, ok |-> many.ok,
                       failedAt |-> many.failedAt, results |-> many.results,
                       log |-> many.eng.log, table |-> NoTable]
  /\ convPrev' = Remember(convRet)
  /\ UNCHANGED << hashSalt, convScope, convEntry, ldVars, dsVars, fnVars, appVars >>

\* execute_query with the sample query of a table: SELECT * FROM "<name>" LIMIT 5
ExecuteQuery(name) ==
  /\ CanConnect(convConn, convConns)
  /\ LET c == ConnectIfNeeded(convConn, convConns)
         t == Lookup(IF convTxn.open THEN convTxn.view ELSE db, name)
     IN /\ convConn' = c.conn
        /\ convConns' = c.conns
        /\ convRet' = [op |-> "execute_query", batch |-> << >>, ok |-> t.exists,
                       failedAt |-> 0, results |-> << >>, log |-> << >>,
                       table |-> [t EXCEPT !.rows = Take(t.rows, SampleLimit)]]
  /\ convPrev' = Remember(convRet)
  /\ UNCHANGED << hashSalt, db, convTxn, convScope, convEntry, ldVars, dsVars, fnVars, appVars >>


(***************************************************************************)
(* SQLiteConverter: the generate_* methods called on their own.  A column  *)
(* record [name, type, pk] of a CREATE statement stands for the text       *)
(* "<name>" <type>, followed by PRIMARY KEY when pk holds.                 *)
(***************************************************************************)
\* The examples handed to the generate_* methods: questions with repeated and
\* leading blanks, headers and type lists of equal and of different lengths,
\* type tags in both cases and unknown ones, rows with quotes, None and numbers.
GenExamples ==
  LET questions == { << "w", "h", "o", " ", "i", "s", " ", " ", "a", "l", " ", "n", "o", "w" >>,
                     << "w", "h", "o", " ", "i", "s", " ", "a", "l", " ", "t", "h", "e", "n" >>,
                     << " ", " ", "w", "h", "o", " ", "i", "s", " ", "a", "l" >>,
                     << "w", "h", "a", "t" >>,
                     << >> }
      headers == { << >>, << << "i", "d" >> >>, << << "i", "d" >>, << "n", "a", "m", "e" >> >> }
      types == { << >>, << "number" >>, << "Number", "text" >>, << "text", "number" >>,
                 << "real", "date" >>, << "blob", "Text" >>, << "number", "number" >> }
      rows == { << >>,
                << << StrV(<< "o", "'", "b" >>), NoneV >>,
                   << IntV(70), StrV(<< "'", "'" >>) >>,
                   << StrV(<< "1" >>), StrV(<< "'", "a", "'" >>) >> >> }
  IN { [question |-> q, header |-> h, types |-> t, rows |-> r,
        hasSql |-> TRUE, human |-> NoneV] :
       q \in questions, h \in headers, t \in types, r \in rows }

GenerateTableNameCall(ex) ==
  /\ genRet' = [op |-> "generate_table_name", example |-> ex,
                out |-> GenerateTableName(ex, hashSalt)]
  /\ UNCHANGED << convVars, ldVars, dsVars, appVars, wlExample, wlRet >>

GenerateCreateTableSqlCall(ex, name) ==
  /\ genRet' = [op |-> "generate_create_table_sql", example |-> ex, table_name |-> name,
                out |-> GenerateCreateTableSql(ex, name)]
  /\ UNCHANGED << convVars, ldVars, dsVars, appVars, wlExample, wlRet >>

GenerateInsertSqlCall(ex, name) ==
  /\ genRet' = [op |-> "generate_insert_sql", example |-> ex, table_name |-> name,
                out |-> GenerateInsertSql(ex, name)]
  /\ UNCHANGED << convVars, ldVars, dsVars, appVars, wlExample, wlRet >>

(***************************************************************************)
(* SchemaLoader.                                                           *)
(***************************************************************************)
\* _get_columns: one entry per column the store reports for the table.
GetColumns(t) ==
  [c \in 1..Len(t.cols) |->
     [name |-> t.cols[c].name, type |-> t.cols[c].type,
      not_null |-> t.cols[c].notnull, is_primary_key |-> t.cols[c].pk]]

GetForeignKeysFirstColumn(t) ==
  [k \in 1..Len(t.fks) |->
     [column |-> t.fks[k].from[1], referenced_table |-> t.fks[k].table,
      referenced_column |-> IF t.fks[k].to = << >> THEN NoneV ELSE StrV(t.fks[k].to[1])]]

\* _get_foreign_keys: one entry per row of PRAGMA foreign_key_list.  The
\* store reports one row for each column of each foreign key, the key
\* declared last first, and NULL as the referenced column of a key declared
\* without one (REFERENCES parent).
GetForeignKeys(t) ==
  LET rows(d) == [s \in 1..Len(d.from) |->
                    [column |-> d.from[s], referenced_table |-> d.table,
                     referenced_column |-> IF d.to = << >> THEN NoneV ELSE StrV(d.to[s])]]
      RECURSIVE list(_)
      list(k) == IF k = 0 THEN << >> ELSE rows(t.fks[k]) \o list(k - 1)
  IN list(Len(t.fks))

\* _get_tables: the names in sqlite_master that are NOT LIKE 'sqlite_%', in
\* catalog order.  In a LIKE pattern _ stands for any one character and %
\* for any run of characters.
GetTables(cat) ==
  LET Like(name) == Len(name) >= 7 /\ SubSeq(name, 1, 6) = << "s", "q", "l", "i", "t", "e" >>
  IN SelectSeq(cat, LAMBDA t : ~Like(t.name))

\* The body of load_schema on a usable connection: one entry per table of the
\* catalog, in catalog order.
SchemaOf(cat) ==
  LET tables == GetTables(cat)
  IN [i \in 1..Len(tables) |->
        [name |-> tables[i].name, columns |-> GetColumns(tables[i]),
         foreign_keys |-> GetForeignKeys(tables[i])]]

NoSchema == [op |-> "none", ok |-> TRUE, tables |-> << >>]

\* __enter__
LoaderEnter ==
  /\ ldScope = "out"
  /\ Len(ldConns) < MaxConns
  /\ ldConns' = Append([c \in 1..Len(ldConns) |->
                          IF c = ldConn /\ ldConns[c] = "open" THEN "dropped"
                          ELSE ldConns[c]], "open")
  /\ ldConn' = Len(ldConns) + 1
  /\ ldEntry' = Len(ldConns) + 1
  /\ ldScope' = "in"
  /\ UNCHANGED << convVars, dsVars, fnVars, appVars, ldRet >>

\* __exit__: close(); self.conn keeps naming the closed connection.
LoaderExit ==
  /\ ldScope = "in"
  /\ ldConns' = IF ldConn # 0 THEN CloseConn(ldConns, ldConn) ELSE ldConns
  /\ ldScope' = "out"
  /\ UNCHANGED << convVars, dsVars, fnVars, appVars, ldConn, ldEntry, ldRet >>

\* load_schema: connects when self.conn is None; a connection object is never
\* falsy, so a closed one is used as it is and its first cursor() call fails.
LoaderLoadSchema ==
  /\ CanConnect(ldConn, ldConns)
  /\ LET c == ConnectIfNeeded(ldConn, ldConns)
         usable == c.conns[c.conn] = "open"
     IN /\ ldConn' = c.conn
        /\ ldConns' = c.conns
        /\ ldRet' = [op |-> "load_schema", ok |-> usable,
                     tables |-> IF usable THEN SchemaOf(db) ELSE << >>]
  /\ UNCHANGED << convVars, dsVars, fnVars, appVars, ldScope, ldEntry >>

InitLoader ==
  /\ ldConn = 0
  /\ ldConns = << >>
  /\ ldScope = "out"
  /\ ldEntry = 0
  /\ ldRet = NoSchema

(***************************************************************************)
(* SQLGenerator.  The completion service is outside the program: a call of *)
(* the chain either returns a text or raises, and which of the two is the  *)
(* service's choice.  A prompt template is the built-in one, a caller's    *)
(* with the same two fields, or a caller's that names a field the call     *)
(* does not fill, on which formatting raises inside the chain.             *)
(***************************************************************************)
TruthyUnlessNone(v) == v.k = "str"

\* Python's truth value of a str or None.
Truthy(v) == v.k = "str" /\ v.s # << >>

ErrorPrefix == << "E", "r", "r", "o", "r", " ", "g", "e", "n", "e", "r", "a", "t", "i", "n", "g", " ", "S", "Q", "L", ":", " " >>

GenerateOutBare(answer) == IF answer.ok THEN answer.text ELSE answer.error

\* What generate returns for what the chain did: its text, or the in-band
\* error string f"Error generating SQL: {e}".
GenerateOut(answer) == IF answer.ok THEN answer.text ELSE ErrorPrefix \o answer.error

\* SQLGenerator(llm, prompt_template): llm is None or the caller's client.
SQLGeneratorInit(llm, prompt_template) ==
  /\ IF ~Truthy(OPENAI_API_KEY)
     THEN /\ agRet' = [op |-> "init", given |-> llm, raised |-> "ValueError",
                       llm |-> "none", chain |-> FALSE]
          /\ UNCHANGED generator
     ELSE LET client == IF llm = "None" THEN "ChatOpenAI" ELSE llm
          IN /\ generator' = [built |-> TRUE, llm |-> client,
                              prompt |-> IF prompt_template = "None" THEN "PROMPT_TEMPLATE"
                                         ELSE prompt_template]
             /\ agRet' = [op |-> "init", given |-> llm, raised |-> "none",
                          llm |-> client, chain |-> TRUE]
  /\ UNCHANGED << convVars, ldVars, dsVars, fnVars, OPENAI_API_KEY, cliRet >>

\* generate(question, schema); answer is what the service does if asked.
Generate(question, schema, answer) ==
  /\ generator.built
  /\ LET did == IF generator.prompt = "extra field"
                THEN [ok |-> FALSE, text |-> << >>, error |-> << "'", "d", "b", "'" >>]
                ELSE answer
     IN agRet' = [op |-> "generate", raised |-> "none", question |-> question,
                  schema |-> schema, chain |-> did, out |-> GenerateOut(did)]
  /\ UNCHANGED << convVars, ldVars, dsVars, fnVars, OPENAI_API_KEY, generator, cliRet >>

(***************************************************************************)
(* The schema command line: python -m src.schema_loader.cli db_path [-o    *)
(* output] [--pretty].  db_path names no file, a directory, a file that is *)
(* no database, or the store; output is absent, empty, a file that can be  *)
(* written or one in a directory that does not exist.  The JSON text of a  *)
(* schema is kept as the schema and the indent it was dumped with.         *)
(***************************************************************************)
\* json.dumps(schema, ensure_ascii=False, indent=indent); indent 0 is None.
JsonDumps(schema, indent) == [some |-> TRUE, schema |-> schema, indent |-> indent]

\* main() of the schema command line, with load_schema(db_path, output_path,
\* pretty) of loader.py: the schema is extracted in a with-scope of a new
\* SchemaLoader, and once more by save_schema_to_file when output_path is
\* truthy.
SchemaCliMain(db_path, output, pretty) ==
  LET NoText == [some |-> FALSE, schema |-> << >>, indent |-> 0]
      run == [op |-> "schema_cli", db_path |-> db_path, output |-> output,
              code |-> 1, raised |-> FALSE, extractions |-> 0,
              stdout |-> NoText, written |-> NoText]
      unwritable == output.s # << >> /\ output.s[1] = "x"
  IN /\ cliRet' =
          IF db_path \in { "missing", "directory" } THEN run
          ELSE IF db_path = "garbage"
               THEN [run EXCEPT !.raised = TRUE, !.extractions = 1]
          ELSE IF ~Truthy(output)
               THEN [run EXCEPT !.code = 0, !.extractions = 1,
                                !.stdout = JsonDumps(SchemaOf(db), 2)]
          ELSE IF unwritable
               THEN [run EXCEPT !.raised = TRUE, !.extractions = 2]
          ELSE [run EXCEPT !.code = 0, !.extractions = 2,
                           !.written = JsonDumps(SchemaOf(db), IF pretty THEN 2 ELSE 0)]
     /\ UNCHANGED << convVars, ldVars, dsVars, fnVars, OPENAI_API_KEY, generator, agRet >>

(***************************************************************************)
(* WikiSQLSchemaLoader.  An example is None or a dictionary, of which the  *)
(* model keeps which keys it has: 'table' with 'header' and 'types', 'sql' *)
(* with 'table_id', and whether it has any key at all.                     *)
(***************************************************************************)
WlExamples ==
  LET tables == { [hasTable |-> ht, hasHeader |-> hh, hasTypes |-> hy,
                   header |-> h, types |-> y] :
                  ht \in BOOLEAN, hh \in BOOLEAN, hy \in BOOLEAN,
                  h \in { << >>, << << "i", "d" >> >>, << << "i", "d" >>, << "n", "a", "m", "e" >> >> },
                  y \in { << >>, << "number", "text" >>, << "Number", "blob" >>,
                          << "text", "number" >>, << "real", "date", "text" >> } }
      kept == { t \in tables : /\ ~t.hasTable => ~t.hasHeader /\ ~t.hasTypes
                               /\ ~t.hasHeader => t.header = << >>
                               /\ ~t.hasTypes => t.types = << >>
                               /\ t.hasHeader => t.header # << >>
                               /\ t.hasTypes => t.types # << >> }
      sqls == { [hasSql |-> FALSE, hasTableId |-> FALSE, table_id |-> ""],
                [hasSql |-> TRUE, hasTableId |-> FALSE, table_id |-> ""],
                [hasSql |-> TRUE, hasTableId |-> TRUE, table_id |-> "1-1000181-1"] }
  IN { [kind |-> "None"] }
       \cup { [kind |-> "dict", empty |-> ~t.hasTable /\ ~q.hasSql /\ e,
               hasTable |-> t.hasTable, hasHeader |-> t.hasHeader,
               hasTypes |-> t.hasTypes, header |-> t.header, types |-> t.types,
               hasSql |-> q.hasSql, hasTableId |-> q.hasTableId,
               table_id |-> q.table_id] : t \in kept, q \in sqls, e \in BOOLEAN }

\* A type mapping that takes the tag as it is written.
WikisqlTypeToSqliteCased(t) ==
  CASE t = "text" -> "TEXT" [] t = "number" -> "INTEGER" [] t = "real" -> "REAL"
    [] t = "date" -> "TEXT" [] OTHER -> "TEXT"

\* _wikisql_type_to_sqlite: type_map.get(wikisql_type.lower(), 'TEXT')
WikisqlTypeToSqlite(t) ==
  CASE Lower(t) = "text" -> "TEXT" [] Lower(t) = "number" -> "INTEGER"
    [] Lower(t) = "real" -> "REAL" [] Lower(t) = "date" -> "TEXT" [] OTHER -> "TEXT"

\* _get_column_info past its check: zip(headers, types)
GetColumnInfo(example) ==
  [i \in 1..Min(Len(example.header), Len(example.types)) |->
     [name |-> example.header[i],
      type |-> WikisqlTypeToSqlite(example.types[i]),
      not_null |-> TRUE,
      is_primary_key |-> (i = 1 /\ Lower(example.types[i]) = "number")]]

\* A table name that is always the default one.
WlTableNameDefault(example) == "table"

\* load_schema: table_name
WlTableName(example) ==
  IF example.hasSql /\ example.hasTableId THEN example.table_id ELSE "table"

\* load_schema on the example the loader holds: what it returns or raises.
\* `names` is what the error names: the example for one that was not
\* provided, the table for a dictionary without 'table', the key of a KeyError.
WlSchema(example) ==
  LET raises(exc, what) == [ok |-> FALSE, exc |-> exc, names |-> what, tables |-> << >>]
  IN IF example.kind = "None" \/ example.empty THEN raises("ValueError", "example")
     ELSE IF ~example.hasTable THEN raises("ValueError", "table")
     ELSE IF ~example.hasHeader THEN raises("KeyError", "header")
     ELSE IF ~example.hasTypes THEN raises("KeyError", "types")
     ELSE [ok |-> TRUE, exc |-> "none", names |-> "none",
           tables |-> << [name |-> WlTableName(example),
                          columns |-> GetColumnInfo(example),
                          foreign_keys |-> << >>] >>]

\* loader.load_schema()
WlLoadSchema ==
  /\ wlRet' = [op |-> "load_schema", example |-> wlExample, out |-> WlSchema(wlExample)]
  /\ UNCHANGED << convVars, ldVars, dsVars, appVars, genRet, wlExample >>

\* loader.load_schema_from_example(example)
LoadSchemaFromExample(example) ==
  /\ wlExample' = example
  /\ wlRet' = [op |-> "load_schema_from_example", example |-> example,
               out |-> WlSchema(example)]
  /\ UNCHANGED << convVars, ldVars, dsVars, appVars, genRet >>

\* load_schema_from_wikisql(example), without an output path: a loader of its own.
LoadSchemaFromWikisql(example) ==
  /\ wlRet' = [op |-> "load_schema_from_wikisql", example |-> example,
               out |-> WlSchema(example)]
  /\ UNCHANGED << convVars, ldVars, dsVars, appVars, genRet, wlExample >>

(***************************************************************************)
(* WikiSQLDataset.                                                         *)
(***************************************************************************)
\* An item of the provider: an example and its 'id' field, which is absent, an
\* int, a float (n counts tenths) or a string.
NoId == [k |-> "absent", n |-> 0, s |-> << >>]
IntId(n) == [k |-> "int", n |-> n, s |-> << >>]
FloatId(tenths) == [k |-> "float", n |-> tenths, s |-> << >>]
StrId(s) == [k |-> "str", n |-> 0, s |-> s]

Item(ref, id) == [ref |-> ref, id |-> id]

ProviderA ==
  [train |-> << Item("plain", IntId(7)), Item("samekey", FloatId(25)), Item("other", NoId) >>,
   validation |-> << Item("dupkey", StrId(<< "9" >>)), Item("nosql", IntId(10)) >>,
   test |-> << >>]

ProviderB ==
  [train |-> << Item("nosql", FloatId(9)) >>,
   validation |-> << Item("other", NoId), Item("plain", IntId(3)), Item("dupkey", NoId) >>]

Providers == { ProviderA, ProviderB }

\* The arguments of the calls.
None == [some |-> FALSE, n |-> 0]
Some(n) == [some |-> TRUE, n |-> n]

Splits == { "train", "dev", "bogus" }
Limits == { None, Some(0), Some(2), Some(4) }
Indexes == { -1, 0, 1, 2, 3 }
Keywords == { << "A", "l" >>, << "B", "o" >> }
SearchLimits == { 1, 5 }

\* hf_split = 'validation' if split == 'dev' else split
HfSplit(split) == IF split = "dev" THEN "validation" ELSE split

RECURSIVE StrOfNat(_)
StrOfNat(n) == IF n < 10 THEN DigitChars[n + 1]
               ELSE StrOfNat(n \div 10) \o DigitChars[(n % 10) + 1]

\* A cache key made of the split alone.
CacheKeySplitOnly(split, limit) == split

\* cache_key = f"{split}_{limit}"
CacheKey(split, limit) ==
  split \o "_" \o (IF limit.some THEN StrOfNat(limit.n) ELSE "None")

\* dict(item), with a numeric id replaced by str(int(id)).
Normalized(item) ==
  IF item.id.k = "int" THEN [item EXCEPT !.id = StrId(NatStr(item.id.n))]
  ELSE IF item.id.k = "float" THEN [item EXCEPT !.id = StrId(NatStr(item.id.n \div 10))]
  ELSE item

\* A selection that reads one example more than the limit.
SelectedOneMore(items, limit) ==
  IF limit.some THEN SubSeq(items, 1, Min(limit.n + 1, Len(items))) ELSE items

\* split_dataset.select(range(min(limit, len(split_dataset)))), or all of it
Selected(items, limit) ==
  IF limit.some THEN SubSeq(items, 1, Min(limit.n, Len(items))) ELSE items

\* _load_dataset succeeds when the dataset is already held or can be fetched.
CanLoad == dsLoaded \/ provUp

NoResult ==
  [op |-> "none", split |-> "", limit |-> None, index |-> 0, ok |-> TRUE,
   exc |-> "none", listed |-> {}, obj |-> << >>, items |-> << >>,
   accessed |-> FALSE, again |-> FALSE, keyword |-> << >>,
   splits |-> [given |-> FALSE, names |-> << >>], force |-> FALSE, files |-> {}]

\* Exceptions raised inside load_split's try block, as its handler re-raises
\* them: `except Exception` wraps every one of them in a RuntimeError.
LoadSplitRaises(exc) == "RuntimeError"

\* Exceptions raised inside get_example's try block: ValueError and IndexError
\* are re-raised as they are, any other is wrapped in a RuntimeError.
GetExampleRaises(exc) ==
  IF exc \in {"ValueError", "IndexError"} THEN exc ELSE "RuntimeError"

\* Exceptions raised inside search_examples' try block: ValueError is re-raised
\* as it is, any other is wrapped in a RuntimeError.
SearchRaises(exc) == IF exc = "ValueError" THEN exc ELSE "RuntimeError"

\* What the try block raises first, if anything, before it reads the split.
FirstFailure(split) ==
  IF ~CanLoad THEN "RuntimeError"
  ELSE IF HfSplit(split) \notin DOMAIN provider THEN "ValueError"
  ELSE "none"

\* The valid splits a ValueError message lists.
Listed(exc) == IF exc = "ValueError" THEN DOMAIN provider ELSE {}

LoadSplit(split, limit) ==
  LET key == CacheKey(split, limit)
      call == [NoResult EXCEPT !.op = "load_split", !.split = split, !.limit = limit,
                               !.again = \E r \in returned : r[1] = split /\ r[2] = limit]
  IN /\ UNCHANGED << convVars, ldVars, fnVars, appVars >>
     /\ IF key \in DOMAIN cache
        THEN /\ dsRet' = [call EXCEPT !.obj = cache[key]]
             /\ returned' = returned \cup { << split, limit, cache[key] >> }
             /\ UNCHANGED << data_root, provider, provUp, dsLoaded, cache, heap, made >>
        ELSE LET failure == FirstFailure(split)
             IN IF failure # "none"
                THEN /\ dsRet' = [call EXCEPT !.ok = FALSE, !.accessed = TRUE,
                                              !.exc = LoadSplitRaises(failure),
                                              !.listed = Listed(failure)]
                     /\ dsLoaded' = CanLoad
                     /\ UNCHANGED << data_root, provider, provUp, cache, heap, made, returned >>
                ELSE LET chosen == Selected(provider[HfSplit(split)], limit)
                         data == [i \in 1..Len(chosen) |-> Normalized(chosen[i])]
                         count == IF key \in DOMAIN made THEN made[key] ELSE 0
                         obj == << key, count >>
                     IN /\ count < MaxLists
                        /\ heap' = (obj :> data) @@ heap
                        /\ made' = (key :> count + 1) @@ made
                        /\ cache' = (key :> obj) @@ cache
                        /\ dsRet' = [call EXCEPT !.obj = obj, !.accessed = TRUE]
                        /\ returned' = returned \cup { << split, limit, obj >> }
                        /\ dsLoaded' = TRUE
                        /\ UNCHANGED << data_root, provider, provUp >>

\* A bounds check that tests the upper bound only.
OutOfRangeAbove(index, n) == index >= n

\* The bounds check of get_example.
OutOfRange(index, n) == index < 0 \/ index >= n

\* dataset[index]: a negative index counts from the end; an index outside
\* -len..len-1 raises IndexError.
Indexable(items, index) == -Len(items) <= index /\ index < Len(items)

ItemAt(items, index) == items[IF index < 0 THEN Len(items) + index + 1 ELSE index + 1]

GetExample(split, index) ==
  LET call == [NoResult EXCEPT !.op = "get_example", !.split = split, !.index = index,
                               !.accessed = TRUE]
      early == FirstFailure(split)
      failure == IF early # "none" THEN early
                 ELSE IF \/ OutOfRange(index, Len(provider[HfSplit(split)]))
                         \/ ~Indexable(provider[HfSplit(split)], index)
                      THEN "IndexError" ELSE "none"
  IN /\ dsRet' = IF failure # "none"
                 THEN [call EXCEPT !.ok = FALSE, !.exc = GetExampleRaises(failure),
                                   !.listed = Listed(failure)]
                 ELSE [call EXCEPT
                         !.items = << Normalized(ItemAt(provider[HfSplit(split)], index)) >>]
     /\ dsLoaded' = CanLoad
     /\ UNCHANGED << data_root, provider, provUp, cache, heap, made, returned >>
     /\ UNCHANGED << convVars, ldVars, fnVars, appVars >>

\* str.lower() on the characters that occur.
LowerChar(c) ==
  CASE c = "A" -> "a" [] c = "B" -> "b" [] c = "L" -> "l" [] c = "O" -> "o"
    [] c = "W" -> "w" [] OTHER -> c

\* A comparison that leaves the case of the letters as it is.
LowerTextAsIs(s) == s

\* str.lower()
LowerText(s) == [i \in 1..Len(s) |-> LowerChar(s[i])]

\* needle in haystack
Contains(haystack, needle) ==
  \E i \in 0..(Len(haystack) - Len(needle)) :
    \A j \in 1..Len(needle) : haystack[i + j] = needle[j]

\* split_dataset.filter(filter_fn): the items whose question holds the keyword.
RECURSIVE Filtered(_, _)
Filtered(items, keyword) ==
  IF Len(items) = 0 THEN << >>
  ELSE (IF Contains(LowerText(ExampleOf(items[1].ref).question), LowerText(keyword))
        THEN << items[1] >> ELSE << >>) \o Filtered(Tail(items), keyword)

SearchExamples(keyword, split, limit) ==
  LET call == [NoResult EXCEPT !.op = "search_examples", !.split = split,
                               !.limit = Some(limit), !.accessed = TRUE,
                               !.keyword = keyword]
      failure == FirstFailure(split)
  IN /\ dsRet' = IF failure # "none"
                 THEN [call EXCEPT !.ok = FALSE, !.exc = SearchRaises(failure),
                                   !.listed = Listed(failure)]
                 ELSE LET found == Take(Filtered(provider[HfSplit(split)], keyword), limit)
                      IN [call EXCEPT !.items = [i \in 1..Len(found) |-> Normalized(found[i])]]
     /\ dsLoaded' = CanLoad
     /\ UNCHANGED << data_root, provider, provUp, cache, heap, made, returned >>
     /\ UNCHANGED << convVars, ldVars, fnVars, appVars >>

\* download_dataset(splits, force_redownload).  splits is None or something
\* to iterate: a list of names, or a str, whose elements are its characters.
\* A forced download of a dataset with a data_root empties that directory
\* and forgets the loaded dataset.  Every split asked for is looked up under
\* its own name and its first item is read; whatever is raised on the way is
\* wrapped in a RuntimeError.  The result has one file name per split.
Download(splits, force, loaded) ==
  LET wiped == force /\ data_root
      loads == (loaded /\ ~wiped) \/ provUp
      names == IF ~splits.given THEN DOMAIN provider
               ELSE { splits.names[i] : i \in 1..Len(splits.names) }
      failure == IF ~loads THEN "RuntimeError"
                 ELSE IF \E name \in names : name \notin DOMAIN provider THEN "ValueError"
                 ELSE IF \E name \in names : provider[name] = << >> THEN "IndexError"
                 ELSE "none"
  IN [failure |-> failure, loads |-> loads, names |-> names]

DownloadDataset(splits, force) ==
  LET down == Download(splits, force, dsLoaded)
      call == [NoResult EXCEPT !.op = "download_dataset", !.splits = splits,
                               !.force = force, !.accessed = TRUE]
  IN /\ dsRet' = IF down.failure # "none"
                 THEN [call EXCEPT !.ok = FALSE, !.exc = "RuntimeError"]
                 ELSE [call EXCEPT !.files = down.names]
     /\ dsLoaded' = down.loads
     /\ UNCHANGED << data_root, provider, provUp, cache, heap, made, returned >>
     /\ UNCHANGED << convVars, ldVars, fnVars, appVars >>

(***************************************************************************)
(* The data command line: python -m src.data_manager.cli <subcommand>.     *)
(* Every run is a process of its own: it builds a DataManager, whose       *)
(* dataset has nothing loaded and nothing cached; PYTHONHASHSEED gives the *)
(* runs one hash salt.  db is the database file that --db-path names and   *)
(* that a converter built without a path uses; a test database is a file   *)
(* of its own, named anew in every run.                                    *)
(***************************************************************************)
\* The outcome of a run: the exit code, whether main() returned it (an
\* exception nobody catches ends the process with a traceback and status 1),
\* the operations whose failure a handler caught, the splits download tried
\* and those it reported as downloaded, the tables listed, the database file.
CliRun(code, failed, store) ==
  [code |-> code, returned |-> TRUE, failed |-> failed, attempted |-> << >>,
   downloaded |-> << >>, tables |-> << >>, db |-> store]

\* dataset.load_split(split, limit) on a dataset built a moment ago.
FreshLoad(split, limit) ==
  LET ok == provUp /\ HfSplit(split) \in DOMAIN provider
      chosen == IF ok THEN Selected(provider[HfSplit(split)], limit) ELSE << >>
  IN [ok |-> ok, refs |-> [i \in 1..Len(chosen) |-> chosen[i].ref]]

\* download_command: each name of args.splits is handed to download_dataset
\* as its splits argument, a str, which download_dataset iterates character
\* by character.
DownloadCommand(args) ==
  LET chars(name) == CASE name = "train" -> << "t", "r", "a", "i", "n" >>
                       [] name = "dev" -> << "d", "e", "v" >>
                       [] name = "test" -> << "t", "e", "s", "t" >>
      RECURSIVE loop(_, _, _)
      loop(i, loaded, run) ==
        IF i > Len(args.splits) THEN run
        ELSE LET split == args.splits[i]
                 down == Download([given |-> TRUE, names |-> chars(split)], args.force, loaded)
                 tried == [run EXCEPT !.attempted = Append(@, split)]
             IN IF down.failure = "none"
                THEN loop(i + 1, down.loads,
                          [tried EXCEPT !.downloaded = Append(@, split)])
                ELSE IF ~args.continue_on_error
                     THEN [tried EXCEPT !.code = 1, !.failed = @ \cup { split }]
                ELSE loop(i + 1, down.loads, [tried EXCEPT !.failed = @ \cup { split }])
  IN loop(1, FALSE, CliRun(0, {}, db))

\* info_command has no handler: a RuntimeError of get_splits_info ends the
\* process.  A split whose first item cannot be read is given the status
\* loading_error and the command goes on.
InfoCommand(args) ==
  IF ~provUp THEN [CliRun(1, {}, db) EXCEPT !.returned = FALSE]
  ELSE CliRun(0, {}, db)

\* sample_command: one example by index or the first ones of the split; each
\* is shown, which reads its 'sql' entry, and with --convert converted in a
\* with-scope of the converter; the loop ends after example limit - 1.
SampleCommand(args) ==
  LET items == IF provUp /\ HfSplit(args.split) \in DOMAIN provider
               THEN provider[HfSplit(args.split)] ELSE << >>
      got == IF args.index.some
             THEN IF \/ ~provUp \/ HfSplit(args.split) \notin DOMAIN provider
                     \/ OutOfRange(args.index.n, Len(items))
                  THEN [ok |-> FALSE, refs |-> << >>]
                  ELSE [ok |-> TRUE, refs |-> << ItemAt(items, args.index.n).ref >>]
             ELSE FreshLoad(args.split, Some(args.limit))
      RECURSIVE loop(_, _)
      loop(i, store) ==
        IF i >= Len(got.refs) THEN CliRun(0, {}, store)
        ELSE IF ~ExampleOf(got.refs[i + 1]).hasSql THEN CliRun(1, { "sample" }, store)
        ELSE LET one == ConvertOne(Engine(store, NoTxn), got.refs[i + 1], hashSalt, 1)
                 now == IF args.convert THEN one.eng.db ELSE store
             IN IF args.convert /\ ~one.ok THEN CliRun(1, { "sample" }, now)
                ELSE IF i >= args.limit - 1 THEN CliRun(0, {}, now)
                ELSE loop(i + 1, now)
  IN IF ~got.ok THEN CliRun(1, { "sample" }, db) ELSE loop(0, db)

\* SQLiteConverter.__init__ creates the directory of db_path; a path without
\* a directory part makes os.makedirs('') raise, outside every handler.
\* convert_command: load_split, convert_examples in a with-scope, then the
\* list of the tables in a second one.
ConvertCommand(args) ==
  IF args.db_path = "bare" THEN [CliRun(1, {}, db) EXCEPT !.returned = FALSE]
  ELSE LET got == FreshLoad(args.split, Some(args.limit))
           many == ConvertMany(Engine(db, NoTxn), got.refs, hashSalt)
       IN IF ~got.ok THEN CliRun(1, { "convert" }, db)
          ELSE IF ~many.ok THEN CliRun(1, { "convert" }, many.eng.db)
          ELSE [CliRun(0, {}, many.eng.db) EXCEPT
                  !.tables = [i \in 1..Len(many.eng.db) |-> many.eng.db[i].name]]

\* test_db_command: --clear removes the test databases; otherwise
\* create_test_database loads the split and converts it into the test
\* database, whose tables are then listed and counted.
TestDbCommand(args) ==
  IF args.clear THEN CliRun(0, {}, db)
  ELSE LET got == FreshLoad(args.split, Some(args.limit))
           many == ConvertMany(Engine(<< >>, NoTxn), got.refs, hashSalt)
       IN IF ~got.ok \/ ~many.ok THEN CliRun(1, { "test-db" }, db)
          ELSE [CliRun(0, {}, db) EXCEPT
                  !.tables = [i \in 1..Len(many.eng.db) |-> many.eng.db[i].name]]

\* query_command with the sample query of an example's table, on the file
\* db_path.
QueryCommand(args) ==
  IF args.db_path = "bare" THEN [CliRun(1, {}, db) EXCEPT !.returned = FALSE]
  ELSE IF ~HasTable(db, Prepared[hashSalt][args.query].table_name)
       THEN CliRun(1, { "query" }, db)
  ELSE CliRun(0, {}, db)

\* main(): 'all' among the splits stands for train, dev, test; the
\* subcommand's handler gives the exit code; without a subcommand it is 1.
Main(args) ==
  LET expanded == IF args.command = "download" /\ \E i \in 1..Len(args.splits) : args.splits[i] = "all"
                  THEN [args EXCEPT !.splits = << "train", "dev", "test" >>]
                  ELSE args
  IN /\ \E run \in { CASE args.command = "download" -> DownloadCommand(expanded)
                         [] args.command = "info" -> InfoCommand(expanded)
                         [] args.command = "sample" -> SampleCommand(expanded)
                         [] args.command = "convert" -> ConvertCommand(expanded)
                         [] args.command = "test-db" -> TestDbCommand(expanded)
                         [] args.command = "query" -> QueryCommand(expanded)
                         [] OTHER -> CliRun(1, {}, db) } :
          /\ cliRet' = [op |-> "dm_cli", args |-> args, splits |-> expanded.splits,
                        code |-> run.code, returned |-> run.returned,
                        failed |-> run.failed, attempted |-> run.attempted,
                        downloaded |-> run.downloaded, tables |-> run.tables]
          /\ db' = run.db
     /\ UNCHANGED << hashSalt, convConn, convConns, convTxn, convScope, convEntry, convRet, convPrev >>
     /\ UNCHANGED << ldVars, dsVars, fnVars, OPENAI_API_KEY, generator, agRet >>

\* The provider becomes unreachable, or reachable again.
ProviderFlips ==
  /\ provUp' = ~provUp
  /\ UNCHANGED << data_root, provider, dsLoaded, cache, heap, made, returned, dsRet >>
  /\ UNCHANGED << convVars, ldVars, fnVars, appVars >>

InitData ==
  /\ data_root \in BOOLEAN
  /\ provider \in Providers
  /\ provUp \in BOOLEAN
  /\ dsLoaded = FALSE
  /\ cache = << >>
  /\ heap = << >>
  /\ made = << >>
  /\ returned = {}
  /\ dsRet = NoResult

\* The dataset before any call, for the specifications that do not use it.
IdleData ==
  /\ data_root = FALSE
  /\ provider = ProviderA
  /\ provUp = TRUE
  /\ dsLoaded = FALSE
  /\ cache = << >>
  /\ heap = << >>
  /\ made = << >>
  /\ returned = {}
  /\ dsRet = NoResult

\* No generate_* call made yet, and a WikiSQLSchemaLoader built without an example.
\* No SQLGenerator was asked for; the credential is configured.
IdleApp ==
  /\ OPENAI_API_KEY = StrV(<< "s", "k" >>)
  /\ generator = [built |-> FALSE]
  /\ agRet = [op |-> "none"]
  /\ cliRet = [op |-> "none"]

IdleFn ==
  /\ genRet = [op |-> "none"]
  /\ wlExample = [kind |-> "None"]
  /\ wlRet = [op |-> "none"]
  /\ IdleApp

InitConv ==
  /\ hashSalt \in HashSalts
  /\ db = << >>
  /\ convConn = 0
  /\ convConns = << >>
  /\ convTxn = NoTxn
  /\ convScope = "out"
  /\ convEntry = 0
  /\ convRet = NoCall
  /\ convPrev = Brief(NoCall)
  /\ InitLoader
  /\ IdleData
  /\ IdleFn

\* Single conversions and queries on one converter.
NextConv ==
  \/ \E ref \in ExampleRefs : ConvertExample(ref)
  \/ \E ref \in ExampleRefs : ExecuteQuery(Prepared[hashSalt][ref].table_name)

SpecConv == InitConv /\ [][NextConv]_vars

\* Batch conversions, inside and outside with-scopes.
NextBatch ==
  \/ ConvEnter
  \/ ConvExit
  \/ \E batch \in Batches : ConvertExamples(batch)

SpecBatch == InitConv /\ [][NextBatch]_vars

\* The generate_* methods, called with any of the examples.
NextGen ==
  \/ \E ex \in GenExamples : GenerateTableNameCall(ex)
  \/ \E ex \in GenExamples : GenerateCreateTableSqlCall(ex, << "e", "x", "_", "7" >>)
  \/ \E ex \in GenExamples : GenerateInsertSqlCall(ex, << "e", "x", "_", "7" >>)

SpecGen == InitConv /\ [][NextGen]_vars

\* A WikiSQLSchemaLoader built with any example or with none, and the module's
\* convenience function.
InitWl ==
  /\ hashSalt = 3
  /\ db = << >>
  /\ convConn = 0
  /\ convConns = << >>
  /\ convTxn = NoTxn
  /\ convScope = "out"
  /\ convEntry = 0
  /\ convRet = NoCall
  /\ convPrev = Brief(NoCall)
  /\ InitLoader
  /\ IdleData
  /\ genRet = [op |-> "none"]
  /\ wlExample \in WlExamples
  /\ wlRet = [op |-> "none"]
  /\ IdleApp

NextWl ==
  \/ WlLoadSchema
  \/ \E example \in WlExamples : LoadSchemaFromExample(example)
  \/ \E example \in WlExamples : LoadSchemaFromWikisql(example)

SpecWl == InitWl /\ [][NextWl]_vars

\* The calls made around and inside the with-scopes of both objects.
Init == InitConv /\ hashSalt = 3

Next ==
  \/ ConvEnter
  \/ ConvExit
  \/ ConvertExample("dupkey")
  \/ ConvertExamples(<< "plain" >>)
  \/ ExecuteQuery(Prepared[hashSalt]["dupkey"].table_name)
  \/ LoaderEnter
  \/ LoaderExit
  \/ LoaderLoadSchema

Spec == Init /\ [][Next]_vars

\* A SchemaLoader on a store that other programs filled: up to three of a
\* table of users, a table of orders that references it, a table of items
\* with a two-column foreign key and one declared without a referenced
\* column, the store's own sqlite_sequence, and a user table whose name
\* happens to start with the letters sqlite.
InitSchema ==
  LET col(name, type, pk, notnull) ==
        [name |-> name, type |-> type, pk |-> pk, notnull |-> notnull]
      id == col(<< "i", "d" >>, "INTEGER", TRUE, FALSE)
      held == { [Table(<< "u", "s", "e", "r", "s" >>, << id, col(<< "n", "a", "m", "e" >>, "TEXT", FALSE, TRUE) >>)
                   EXCEPT !.rows = << << IntegerS(1), TextS(<< "a", "l" >>) >> >>],
                [Table(<< "o", "r", "d", "e", "r", "s" >>, << id, col(<< "u", "s", "e", "r", "_", "i", "d" >>, "INTEGER", FALSE, FALSE),
                                  col(<< "v" >>, "REAL", FALSE, TRUE) >>)
                   EXCEPT !.fks = << [from |-> << << "u", "s", "e", "r", "_", "i", "d" >> >>, table |-> << "u", "s", "e", "r", "s" >>, to |-> << << "i", "d" >> >>] >>],
                [Table(<< "i", "t", "e", "m", "s" >>, << col(<< "o" >>, "INTEGER", FALSE, FALSE),
                                 col(<< "u" >>, "INTEGER", FALSE, FALSE) >>)
                   EXCEPT !.fks = << [from |-> << << "o" >>, << "u" >> >>, table |-> << "o", "r", "d", "e", "r", "s" >>,
                                      to |-> << << "i", "d" >>, << "u", "s", "e", "r", "_", "i", "d" >> >>],
                                     [from |-> << << "u" >> >>, table |-> << "u", "s", "e", "r", "s" >>, to |-> << >>] >>],
                Table(<< "s", "q", "l", "i", "t", "e", "_", "s", "e", "q", "u", "e", "n", "c", "e" >>, << col(<< "n", "a", "m", "e" >>, "", FALSE, FALSE),
                           col(<< "s", "e", "q" >>, "", FALSE, FALSE) >>),
                Table(<< "s", "q", "l", "i", "t", "e", "d", "b" >>, << col(<< "v" >>, "TEXT", FALSE, FALSE) >>) }
  IN /\ hashSalt = 3
     /\ convConn = 0
     /\ convConns = << >>
     /\ convTxn = NoTxn
     /\ convScope = "out"
     /\ convEntry = 0
     /\ convRet = NoCall
     /\ convPrev = Brief(NoCall)
     /\ InitLoader
     /\ IdleData
     /\ IdleFn
     /\ \E a, b, c \in held \cup { NoTable } :
          /\ db = SelectSeq(<< a, b, c >>, LAMBDA t : t.exists)
          /\ \A i, j \in 1..Len(db) : db[i] = db[j] => i = j

NextSchema == LoaderEnter \/ LoaderExit \/ LoaderLoadSchema

SpecSchema == InitSchema /\ [][NextSchema]_vars

\* Conversions of single examples and schema loads on the same store.
NextAgree ==
  \/ \E ref \in { "plain", "samekey", "other", "keyed", "dupheader" } : ConvertExample(ref)
  \/ LoaderLoadSchema

SpecAgree == Init /\ [][NextAgree]_vars

\* Runs of the schema command line on a store that other programs filled.
NextSchemaCli ==
  \E db_path \in { "missing", "directory", "garbage", "store" },
     output \in { NoneV, StrV(<< >>), StrV(<< "o" >>), StrV(<< "x", "/", "o" >>) },
     pretty \in BOOLEAN :
    SchemaCliMain(db_path, output, pretty)

SpecSchemaCli == InitSchema /\ [][NextSchemaCli]_vars

\* Runs of the data command line, one after the other, while the provider
\* comes and goes.
InitCli ==
  /\ hashSalt \in HashSalts
  /\ db = << >>
  /\ convConn = 0
  /\ convConns = << >>
  /\ convTxn = NoTxn
  /\ convScope = "out"
  /\ convEntry = 0
  /\ convRet = NoCall
  /\ convPrev = Brief(NoCall)
  /\ InitLoader
  /\ InitData
  /\ IdleFn

\* The command lines run: every subcommand, with splits, flags, indexes and
\* limits that make its operations succeed and fail; a query is the sample
\* query of the table that an example converts to.
CliArgs ==
  LET unused == [command |-> "none", splits |-> << >>, force |-> FALSE,
                 continue_on_error |-> FALSE, split |-> "dev", index |-> None,
                 limit |-> 1, convert |-> FALSE, clear |-> FALSE,
                 db_path |-> "data", query |-> "plain"]
  IN { [unused EXCEPT !.command = "download", !.splits = splits, !.force = force,
                      !.continue_on_error = continue_on_error] :
         splits \in { << "train" >>, << "dev" >>, << "test", "train" >>,
                      << "dev", "all" >>, << "train", "dev" >> },
         force \in BOOLEAN, continue_on_error \in BOOLEAN }
     \cup { unused, [unused EXCEPT !.command = "info"] }
     \cup { [unused EXCEPT !.command = "sample", !.split = split, !.index = index,
                           !.limit = limit, !.convert = convert] :
              split \in { "train", "dev", "test" }, index \in { None, Some(1), Some(3) },
              limit \in { 1, 2 }, convert \in BOOLEAN }
     \cup { [unused EXCEPT !.command = "convert", !.split = split, !.limit = limit,
                           !.db_path = db_path] :
              split \in { "train", "dev", "test" }, limit \in { 0, 2 },
              db_path \in { "data", "bare" } }
     \cup { [unused EXCEPT !.command = "test-db", !.split = split, !.limit = 2,
                           !.clear = clear] :
              split \in { "train", "dev", "test" }, clear \in BOOLEAN }
     \cup { [unused EXCEPT !.command = "query", !.query = ref,
                           !.db_path = db_path] :
              ref \in { "plain", "other" }, db_path \in { "data", "bare" } }

NextCli ==
  \/ \E args \in CliArgs : Main(args)
  \/ ProviderFlips

SpecCli == InitCli /\ [][NextCli]_vars

\* SQLGenerator in a process where src.config found no credential, an empty
\* one or a usable one.
InitAgent ==
  /\ hashSalt = 3
  /\ db = << >>
  /\ convConn = 0
  /\ convConns = << >>
  /\ convTxn = NoTxn
  /\ convScope = "out"
  /\ convEntry = 0
  /\ convRet = NoCall
  /\ convPrev = Brief(NoCall)
  /\ InitLoader
  /\ IdleData
  /\ genRet = [op |-> "none"]
  /\ wlExample = [kind |-> "None"]
  /\ wlRet = [op |-> "none"]
  /\ OPENAI_API_KEY \in { NoneV, StrV(<< >>), StrV(<< "s", "k" >>) }
  /\ generator = [built |-> FALSE]
  /\ agRet = [op |-> "none"]
  /\ cliRet = [op |-> "none"]

NextAgent ==
  \/ \E llm \in { "None", "own" }, prompt_template \in { "None", "own", "extra field" } :
       SQLGeneratorInit(llm, prompt_template)
  \/ \E question \in { << "q" >>, << "w" >>, << >> }, schema \in { << "s" >>, << >> },
        answer \in [ok : { TRUE }, text : { << "S", "E", "L" >>, << >>, ErrorPrefix }, error : { << >> }]
                  \cup [ok : { FALSE }, text : { << >> }, error : { << "4", "2", "9" >>, << >> }] :
       Generate(question, schema, answer)

SpecAgent == InitAgent /\ [][NextAgent]_vars

\* The calls on one WikiSQLDataset instance.
InitDataset ==
  /\ hashSalt = 3
  /\ db = << >>
  /\ convConn = 0
  /\ convConns = << >>
  /\ convTxn = NoTxn
  /\ convScope = "out"
  /\ convEntry = 0
  /\ convRet = NoCall
  /\ convPrev = Brief(NoCall)
  /\ InitLoader
  /\ InitData
  /\ IdleFn

NextData ==
  \/ \E split \in Splits :
       \E limit \in IF split = "train" THEN Limits ELSE { None, Some(2) } :
         LoadSplit(split, limit)
  \/ \E split \in Splits, index \in Indexes : GetExample(split, index)
  \/ \E keyword \in Keywords, split \in Splits, limit \in SearchLimits :
       SearchExamples(keyword, split, limit)
  \/ \E splits \in { [given |-> FALSE, names |-> << >>] }
                     \cup [given : { TRUE },
                           names : { << >>, << "train" >>, << "t", "r", "a", "i", "n" >>,
                                     << "dev" >>, << "test", "train" >> }],
        force \in BOOLEAN :
       DownloadDataset(splits, force)
  \/ ProviderFlips

SpecData == InitDataset /\ [][NextData]_vars

(***************************************************************************)
(* Properties of SQLiteConverter.convert_example (SpecConv).               *)
(***************************************************************************)
\* Whether the literal of a VALUES list denotes the row value v.
Denotes(lit, v) ==
  LET d == LiteralValue(lit)
  IN CASE v.k = "none" -> d.k = "null"
       [] v.k = "int" -> d.k = "integer" /\ d.n = v.n
       [] OTHER -> d.k = "text" /\ d.s = v.s

\* C1: a successful convert_example issues, for the derived table name, DROP
\* TABLE IF EXISTS, then CREATE TABLE, then one INSERT per row of the example
\* in row order, then a single commit; nothing is issued after the commit.
C1_StatementOrder ==
  (convRet.op = "convert_example" /\ convRet.ok) =>
    LET ex == ExampleOf(convRet.batch[1])
        name == convRet.results[1].table_name
        log == convRet.log
        n == Len(ex.rows)
    IN /\ Len(log) = n + 3
       /\ log[1].op = "DROP" /\ log[1].table = name
       /\ log[2].op = "CREATE" /\ log[2].table = name
       /\ ColNames(log[2].cols) = ex.header
       /\ \A r \in 1..n :
            /\ log[2 + r].op = "INSERT" /\ log[2 + r].table = name
            /\ Len(log[2 + r].vals) = Len(ex.rows[r])
            /\ \A j \in 1..Len(ex.rows[r]) : Denotes(log[2 + r].vals[j], ex.rows[r][j])
       /\ log[n + 3].op = "COMMIT"
       /\ \A i \in 1..(n + 2) : log[i].op # "COMMIT"

\* A successful conversion of the three-row example, whose rows hold a quote,
\* a None and an integer.
C1_Witness ==
  /\ convRet.op = "convert_example" /\ convRet.ok
  /\ convRet.batch = << "samekey" >>
  /\ Len(convRet.log) = 6

\* C2: converting the same example twice in a row gives the same table name,
\* the same column definitions and the same number of rows as converting it
\* once: the second conversion adds no rows to the first one's.
C2_Idempotent ==
  (/\ convRet.op = "convert_example" /\ convRet.ok
   /\ convPrev.op = "convert_example" /\ convPrev.ok
   /\ convPrev.batch = convRet.batch) =>
    /\ convRet.table.exists /\ convPrev.table.exists
    /\ convRet.table.name = convPrev.table.name
    /\ convRet.table.cols = convPrev.table.cols
    /\ Len(convRet.table.rows) = Len(convPrev.table.rows)
    /\ Len(convRet.table.rows) = Len(ExampleOf(convRet.batch[1]).rows)

\* The example without a primary key converted twice in a row.
C2_Witness ==
  /\ convRet.op = "convert_example" /\ convRet.ok
  /\ convPrev.op = "convert_example" /\ convPrev.ok
  /\ convPrev.batch = << "samekey" >> /\ convRet.batch = << "samekey" >>
  /\ Len(convRet.table.rows) = 3

\* Whether the stored value is what the store keeps for the row value v.
Shows(stored, v) ==
  CASE v.k = "none" -> stored.k = "null"
    [] v.k = "int" -> \/ stored.k = "integer" /\ stored.n = v.n
                      \/ stored.k = "text" /\ stored.s = NatStr(v.n)
    [] OTHER -> \/ stored.k = "text" /\ stored.s = v.s
                \/ stored.k = "integer" /\ IsNumeral(v.s) /\ stored.n = DigitsVal(v.s)

\* C3: when an example is converted after a different one that derived the
\* same table name, the collision raises no error (an example that converts
\* into an empty store converts here too) and the table then has exactly the
\* later example's columns and rows.
C3_LastWriterWins ==
  (/\ convRet.op = "convert_example"
   /\ convPrev.op = "convert_example" /\ convPrev.ok
   /\ convPrev.batch # convRet.batch
   /\ convPrev.table.name = Prepared[hashSalt][convRet.batch[1]].table_name
   /\ ConvertOne(Engine(<< >>, NoTxn), convRet.batch[1], hashSalt, 1).ok) =>
    LET ex == ExampleOf(convRet.batch[1])
        t == Lookup(db, convPrev.table.name)
    IN /\ convRet.ok
       /\ t.exists
       /\ ColNames(t.cols) = ex.header
       /\ t.cols = convRet.results[1].create_sql.cols
       /\ Len(t.rows) = Len(ex.rows)
       /\ \A r \in 1..Len(ex.rows) :
            \A j \in 1..Len(ex.header) : Shows(t.rows[r][j], ex.rows[r][j])

\* Two examples with different headers collide on the table name, and the
\* later one's single row is what the table holds.
C3_Witness ==
  /\ convRet.op = "convert_example" /\ convRet.ok
  /\ convPrev.op = "convert_example" /\ convPrev.ok
  /\ convPrev.batch = << "plain" >> /\ convRet.batch = << "other" >>
  /\ convPrev.table.name = convRet.table.name
  /\ Len(Lookup(db, convRet.table.name).rows) = 1

\* C14: a string row value that holds one or more single quotes, written to
\* a text column by a successful convert_example, is read back from the
\* created table as the original string, unchanged.
C14_QuoteRoundTrip ==
  (convRet.op = "convert_example" /\ convRet.ok) =>
    LET ex == ExampleOf(convRet.batch[1])
        t == Lookup(db, convRet.results[1].table_name)
    IN \A r \in 1..Len(ex.rows) : \A j \in 1..Len(ex.rows[r]) :
         (/\ ex.rows[r][j].k = "str"
          /\ \E i \in 1..Len(ex.rows[r][j].s) : ex.rows[r][j].s[i] = "'"
          /\ t.cols[j].type = "TEXT") =>
           /\ Len(t.rows) = Len(ex.rows)
           /\ t.rows[r][j].k = "text"
           /\ t.rows[r][j].s = ex.rows[r][j].s

\* The stored table holds a quote inside a string, two quotes in a row, and a
\* string that starts and ends with a quote.
C14_Witness ==
  /\ convRet.op = "convert_example" /\ convRet.ok
  /\ convRet.batch = << "samekey" >>
  /\ LET t == Lookup(db, convRet.results[1].table_name)
     IN /\ Len(t.rows) = 3
        /\ t.rows[1][2].s = << "o", "'", "b" >>
        /\ t.rows[3][1].s = << "'", "'" >>
        /\ t.rows[3][2].s = << "'", "a", "'" >>

\* The text in which every `table` that stands as a word of its own, from
\* position i on, is replaced by the name; a `table` inside a longer word stays.
RECURSIVE WordReplaced(_, _, _)
WordReplaced(s, i, name) ==
  LET Breaks(p) == p < 1 \/ p > Len(s) \/ s[p] \in { " ", ",", "(", ")", "'", "=" }
  IN IF i > Len(s) THEN << >>
     ELSE IF /\ i + 4 <= Len(s)
             /\ SubSeq(s, i, i + 4) = << "t", "a", "b", "l", "e" >>
             /\ Breaks(i - 1) /\ Breaks(i + 5)
          THEN name \o WordReplaced(s, i + 5, name)
          ELSE << s[i] >> \o WordReplaced(s, i + 1, name)

\* C16: in the result of convert_example, target_sql is null when the example
\* has no human_readable text; otherwise it is that text with the word `table`
\* replaced by the derived table name wherever it stands as a word of its
\* own, and with nothing else changed.
C16_TargetSql ==
  (convRet.op = "convert_example" /\ convRet.ok) =>
    LET ex == ExampleOf(convRet.batch[1])
        res == convRet.results[1]
    IN IF ex.human.k = "none" THEN res.target_sql.k = "none"
       ELSE /\ res.target_sql.k = "str"
            /\ res.target_sql.s = WordReplaced(ex.human.s, 1, res.table_name)

(***************************************************************************)
(* Properties of the generate_* methods (SpecGen).                         *)
(***************************************************************************)
\* The CREATE statement of the last generate_create_table_sql call has one
\* column per header, in header order, named by the header, typed by the
\* mapping applied to what Tag makes of the type tag, and PRIMARY KEY on the
\* column at index 0 exactly when Tag makes `number` of its type tag.
CreateTableFollows(Tag(_)) ==
  (/\ genRet.op = "generate_create_table_sql"
   /\ Len(genRet.example.header) = Len(genRet.example.types)) =>
    LET ex == genRet.example
        Mapped(t) == CASE Tag(t) = "text" -> "TEXT"
                       [] Tag(t) = "number" -> "INTEGER"
                       [] Tag(t) = "real" -> "REAL"
                       [] Tag(t) = "date" -> "TEXT"
                       [] OTHER -> "TEXT"
    IN /\ genRet.out.op = "CREATE"
       /\ genRet.out.table = genRet.table_name
       /\ Len(genRet.out.cols) = Len(ex.header)
       /\ \A i \in 1..Len(ex.header) :
            /\ genRet.out.cols[i].name = ex.header[i]
            /\ genRet.out.cols[i].type = Mapped(ex.types[i])
            /\ genRet.out.cols[i].pk = (i = 1 /\ Tag(ex.types[i]) = "number")

\* C12 as stated: the type tags are taken as they are written, so that only
\* the tag `number` maps to INTEGER and makes a primary key, and a tag such as
\* `Number` is one of the others and maps to TEXT.
C12_CreateTableExactTags == CreateTableFollows(LAMBDA t : t)

\* C12: for every example whose header and types have the same length N,
\* generate_create_table_sql emits a CREATE TABLE IF NOT EXISTS statement with
\* exactly N column definitions in header order, each the quoted header name
\* and the mapped type (text->TEXT, number->INTEGER, real->REAL, date->TEXT,
\* anything else->TEXT), the type tag being compared without regard to case;
\* PRIMARY KEY is on the column at index 0 exactly when its tag is `number`
\* in any case, and on no other column.
C12_CreateTable ==
  CreateTableFollows(LAMBDA t : CASE t = "Number" -> "number"
                                   [] t = "Text" -> "text"
                                   [] OTHER -> t)

\* A two-column example whose first type tag is written `Number`.
C12_Witness ==
  /\ genRet.op = "generate_create_table_sql"
  /\ genRet.example.types = << "Number", "text" >>
  /\ Len(genRet.example.header) = 2
  /\ genRet.out.cols[1].pk /\ ~genRet.out.cols[2].pk

\* C13: generate_insert_sql returns one INSERT statement per row, in row
\* order, each listing all header names in header order; in the VALUES list a
\* string is a quoted literal whose body is the string with every single
\* quote doubled, None is the literal NULL, and any other value is written as
\* its plain string form without quotes.
C13_InsertSql ==
  (genRet.op = "generate_insert_sql") =>
    LET ex == genRet.example
        out == genRet.out
        Quotes(s, n) == Cardinality({ i \in 1..n : s[i] = "'" })
        Doubled(body, s) ==
          /\ Len(body) = Len(s) + Quotes(s, Len(s))
          /\ \A i \in 1..Len(s) :
               /\ body[i + Quotes(s, i - 1)] = s[i]
               /\ s[i] = "'" => body[i + Quotes(s, i - 1) + 1] = "'"
        Written(lit, v) ==
          CASE v.k = "str" -> lit.q = "quoted" /\ Doubled(lit.text, v.s)
            [] v.k = "none" -> lit.q = "null" /\ lit.text = << "N", "U", "L", "L" >>
            [] OTHER -> /\ lit.q = "bare" /\ IsNumeral(lit.text)
                        /\ DigitsVal(lit.text) = v.n
                        /\ (Len(lit.text) = 1 \/ lit.text[1] # "0")
    IN /\ Len(out) = Len(ex.rows)
       /\ \A r \in 1..Len(ex.rows) :
            /\ out[r].op = "INSERT" /\ out[r].table = genRet.table_name
            /\ out[r].names = ex.header
            /\ Len(out[r].vals) = Len(ex.rows[r])
            /\ \A j \in 1..Len(ex.rows[r]) : Written(out[r].vals[j], ex.rows[r][j])

\* Three rows that hold strings with quotes, a None and an integer.
C13_Witness ==
  /\ genRet.op = "generate_insert_sql"
  /\ Len(genRet.out) = 3
  /\ genRet.out[1].vals[1].text = << "o", "'", "'", "b" >>
  /\ genRet.out[1].vals[2].q = "null"
  /\ genRet.out[2].vals[1].text = << "7", "0" >>
  /\ Len(genRet.example.header) = 2

\* C15: generate_table_name returns "ex_" followed by an integer in 0..9999,
\* and within one process run the name depends on the header and on the first
\* three whitespace-separated tokens of the question only: the example
\* stripped of its types, rows, query and of the rest of its question, which
\* agrees with it on those, gets the same name.
C15_TableName ==
  (genRet.op = "generate_table_name") =>
    LET ex == genRet.example
        words == Take(Split(ex.question), 3)
        joined == IF Len(words) = 0 THEN << >>
                  ELSE words[1] \o (IF Len(words) > 1 THEN << " " >> \o words[2] ELSE << >>)
                                \o (IF Len(words) > 2 THEN << " " >> \o words[3] ELSE << >>)
        bare == [question |-> joined, header |-> ex.header, types |-> << >>,
                 rows |-> << >>, hasSql |-> FALSE, human |-> NoneV]
        number == SubSeq(genRet.out, 4, Len(genRet.out))
    IN /\ SubSeq(genRet.out, 1, 3) = << "e", "x", "_" >>
       /\ IsNumeral(number) /\ DigitsVal(number) \in 0..9999
       /\ genRet.out = GenerateTableName(bare, hashSalt)

\* A question of four words with a repeated blank, types and rows: none of
\* the fourth word, the types and the rows is part of the name.
C15_Witness ==
  /\ genRet.op = "generate_table_name"
  /\ Len(Split(genRet.example.question)) = 4
  /\ Len(genRet.example.question) = 14
  /\ Len(genRet.example.rows) = 3
  /\ Len(genRet.example.types) = 2
  /\ Len(genRet.example.header) = 2

(***************************************************************************)
(* Properties of WikiSQLSchemaLoader (SpecWl).                             *)
(***************************************************************************)
\* The schema last built from an example has exactly one table; its columns
\* are, in header order, one per (header[i], types[i]) pair, named by the
\* header, typed by the mapping applied to what Tag makes of the type tag,
\* never nullable, a primary key only at index 0 when Tag makes `number` of
\* the tag; and it has no foreign keys.
SchemaFollows(Tag(_)) ==
  (wlRet.op # "none" /\ wlRet.out.ok) =>
    LET ex == wlRet.example
        Mapped(t) == CASE Tag(t) = "text" -> "TEXT"
                       [] Tag(t) = "number" -> "INTEGER"
                       [] Tag(t) = "real" -> "REAL"
                       [] Tag(t) = "date" -> "TEXT"
                       [] OTHER -> "TEXT"
        pairs == IF Len(ex.header) < Len(ex.types) THEN Len(ex.header) ELSE Len(ex.types)
        tables == wlRet.out.tables
    IN /\ Len(tables) = 1
       /\ tables[1].foreign_keys = << >>
       /\ Len(tables[1].columns) = pairs
       /\ \A i \in 1..pairs :
            /\ tables[1].columns[i].name = ex.header[i]
            /\ tables[1].columns[i].type = Mapped(ex.types[i])
            /\ tables[1].columns[i].not_null
            /\ tables[1].columns[i].is_primary_key = (i = 1 /\ Tag(ex.types[i]) = "number")

\* C17 as stated: the type tags are taken as they are written, so that a tag
\* such as `Number` is none of the four known ones: it maps to TEXT and makes
\* no primary key.
C17_SchemaExactTags == SchemaFollows(LAMBDA t : t)

\* C17: WikiSQLSchemaLoader.load_schema returns exactly one table whose
\* columns are, in header order, one per (header[i], types[i]) pair with
\* name = header[i], the type mapped from the lower-cased type tag
\* (text->TEXT, number->INTEGER, real->REAL, date->TEXT, anything else->TEXT),
\* not_null always true, is_primary_key true only for index 0 with a type tag
\* that is `number` in any letter case; its foreign_keys list is empty.
C17_Schema ==
  SchemaFollows(LAMBDA t : CASE t = "Number" -> "number"
                             [] t = "Text" -> "text"
                             [] OTHER -> t)

\* A schema of two columns, asked of the loader's own example, whose first
\* type tag is written `Number`.
C17_Witness ==
  /\ wlRet.op = "load_schema" /\ wlRet.out.ok
  /\ wlRet.example.types = << "Number", "blob" >>
  /\ Len(wlRet.out.tables[1].columns) = 2
  /\ wlRet.out.tables[1].columns[1].is_primary_key

\* C18: the table name in the schema built from an example is the example's
\* sql.table_id when it has one, and the literal "table" when the example has
\* no sql entry or its sql has no table_id.
C18_TableName ==
  (wlRet.op # "none" /\ wlRet.out.ok) =>
    /\ (wlRet.example.hasSql /\ wlRet.example.hasTableId) =>
         wlRet.out.tables[1].name = wlRet.example.table_id
    /\ (~wlRet.example.hasSql \/ ~wlRet.example.hasTableId) =>
         wlRet.out.tables[1].name = "table"

\* An example whose sql entry has no table_id: the name is the fallback.
C18_Witness ==
  /\ wlRet.op = "load_schema_from_example" /\ wlRet.out.ok
  /\ wlRet.example.hasSql /\ ~wlRet.example.hasTableId
  /\ wlRet.out.tables[1].name = "table"

\* C19: building a schema from an example that lacks the `table` key, or
\* whose table lacks `header` or `types`, fails with a validation error
\* (ValueError) that identifies the missing field, and returns no schema; for
\* load_schema, load_schema_from_example and load_schema_from_wikisql alike.
C19_MissingFields ==
  (/\ wlRet.op \in {"load_schema", "load_schema_from_example", "load_schema_from_wikisql"}
   /\ wlRet.example.kind = "dict" /\ ~wlRet.example.empty
   /\ ~(wlRet.example.hasTable /\ wlRet.example.hasHeader /\ wlRet.example.hasTypes)) =>
    /\ ~wlRet.out.ok
    /\ wlRet.out.tables = << >>
    /\ wlRet.out.exc = "ValueError"
    /\ wlRet.out.names = (IF ~wlRet.example.hasTable THEN "table"
                          ELSE IF ~wlRet.example.hasHeader THEN "header" ELSE "types")

(***************************************************************************)
(* Properties of SQLiteConverter.convert_examples (SpecBatch).             *)
(***************************************************************************)
\* C4: convert_examples converts the examples in input order and returns one
\* result per example in that order; when the conversion of example k fails,
\* no list is returned and no statement is issued for an example after k.
C4_BatchOrder ==
  (convRet.op = "convert_examples") =>
    LET n == Len(convRet.batch)
        k == convRet.failedAt
        log == convRet.log
    IN /\ \A i, j \in 1..Len(log) : i < j => log[i].idx <= log[j].idx
       /\ convRet.ok =>
            /\ Len(convRet.results) = n
            /\ \A i \in 1..n : convRet.results[i].raw_data = convRet.batch[i]
            /\ \A i \in 1..n : \E p \in 1..Len(log) : log[p].idx = i /\ log[p].op = "COMMIT"
       /\ ~convRet.ok =>
            /\ k \in 1..n
            /\ convRet.results = << >>
            /\ \A p \in 1..Len(log) : log[p].idx <= k
            /\ \A i \in 1..(k - 1) : \E p \in 1..Len(log) : log[p].idx = i /\ log[p].op = "COMMIT"

\* A list whose second example fails: nothing is issued for the third.
C4_Witness ==
  /\ convRet.op = "convert_examples" /\ ~convRet.ok
  /\ convRet.failedAt = 2 /\ Len(convRet.batch) = 3
  /\ \E p \in 1..Len(convRet.log) : convRet.log[p].idx = 2

\* Whether, after a convert_examples call whose k-th example failed in one
\* of its statements, no commit was issued for that example, no list was
\* returned, and the store holds, for every earlier example j that Kept
\* selects, the table of that name with the columns and the number of rows of
\* the last example before k that derived the name.
FailureKeeps(Kept(_, _)) ==
  LET log == convRet.log
      k == convRet.failedAt
      name(i) == Prepared[hashSalt][convRet.batch[i]].table_name
  IN (/\ convRet.op = "convert_examples" /\ ~convRet.ok
      /\ log[Len(log)].op # "COMMIT") =>
       /\ \A p \in 1..Len(log) : ~(log[p].idx = k /\ log[p].op = "COMMIT")
       /\ convRet.results = << >>
       /\ \A j \in 1..(k - 1) :
            Kept(name(j), name(k)) =>
              LET last == CHOOSE w \in j..(k - 1) :
                            /\ name(w) = name(j)
                            /\ \A v \in (w + 1)..(k - 1) : name(v) # name(j)
                  ex == ExampleOf(convRet.batch[last])
                  t == Lookup(db, name(j))
              IN /\ t.exists
                 /\ ColNames(t.cols) = ex.header
                 /\ Len(t.rows) = Len(ex.rows)

\* C26 as stated: when a statement of an example raises, commit is not
\* invoked for that example, the error propagates, and the table of every
\* example converted earlier in the same batch stays committed in the store.
C26_EarlierTablesStay == FailureKeeps(LAMBDA earlier, failing : TRUE)

\* C26: when a statement of an example raises, commit is not invoked for
\* that example, the error propagates, and the table of every example
\* converted earlier in the same batch stays committed in the store unless
\* the failing example derives the same table name.
C26_CommitLast == FailureKeeps(LAMBDA earlier, failing : earlier # failing)

\* The third example of a list failed on its second INSERT after the second
\* example had derived the same table name: the first example's table is in
\* the store with its two rows, the shared one is there without a row.
C26_Witness ==
  /\ convRet.op = "convert_examples" /\ ~convRet.ok
  /\ convRet.batch = << "plain", "keyed", "dupkey" >> /\ convRet.failedAt = 3
  /\ convRet.log[Len(convRet.log)].op = "INSERT"
  /\ Len(Lookup(db, Prepared[hashSalt]["plain"].table_name).rows) = 2
  /\ Lookup(db, Prepared[hashSalt]["keyed"].table_name).rows = << >>

\* C27: the cache holds an entry under the key of a split and a limit exactly
\* if a load_split call with that split and limit has returned; a failing
\* load_split leaves no entry under its key; and no call of load_split,
\* get_example, search_examples or download_dataset replaces or removes an
\* entry.
C27_CacheGrowth ==
  /\ [](\A split \in Splits, limit \in Limits :
         (CacheKey(split, limit) \in DOMAIN cache)
           <=> (\E r \in returned : r[1] = split /\ r[2] = limit))
  /\ []((dsRet.op = "load_split" /\ ~dsRet.ok) =>
         (CacheKey(dsRet.split, dsRet.limit) \notin DOMAIN cache))
  /\ [][\A key \in DOMAIN cache : key \in DOMAIN cache' /\ cache'[key] = cache[key]]_vars

\* Two keys are cached, a load_split has failed since, and the last call was
\* a forced download that went through.
C27_Witness ==
  /\ Cardinality(DOMAIN cache) >= 2
  /\ dsRet.op = "download_dataset" /\ dsRet.ok /\ dsRet.force /\ data_root
  /\ dsRet.files = { "train" }

(***************************************************************************)
(* Properties of the with-scopes and of the connections (Spec).            *)
(***************************************************************************)
\* C5: inside a with-scope of a SQLiteConverter or a SchemaLoader the object
\* holds an open connection, and once the scope is left, whether its body
\* completed or raised, the connection opened on entry is closed.
C5_ScopedConnection ==
  /\ convScope = "in" => convConn # 0 /\ convConns[convConn] = "open"
  /\ (convScope = "out" /\ convEntry # 0) => convConns[convEntry] = "closed"
  /\ ldScope = "in" => ldConn # 0 /\ ldConns[ldConn] = "open"
  /\ (ldScope = "out" /\ ldEntry # 0) => ldConns[ldEntry] = "closed"

\* The converter's first connection was opened by a scope whose body raised,
\* the loader's by a scope whose body loaded the schema; both scopes are left.
C5_Witness ==
  /\ convScope = "out" /\ convEntry = 1 /\ convConn = 0
  /\ convRet.op = "convert_example" /\ ~convRet.ok
  /\ ldScope = "out" /\ ldEntry = 1 /\ ldRet.ok /\ ldRet.op = "load_schema"

\* C6: once the outermost call or with-scope of an object has ended, no
\* connection that the object opened is still open.
C6_NoConnectionLeftOpen ==
  /\ convScope = "out" => \A c \in 1..Len(convConns) : convConns[c] # "open"
  /\ ldScope = "out" => \A c \in 1..Len(ldConns) : ldConns[c] # "open"

\* C20: SchemaLoader.load_schema returns exactly one table entry for every
\* user table of the store, in the store's order, and none for a table of the
\* store's own catalog (the names that start with sqlite_); each entry lists
\* the table's columns in the store's order with their name, declared type,
\* not-null flag and primary-key flag.
C20_UserTables ==
  (ldRet.op = "load_schema" /\ ldRet.ok) =>
    LET reserved == << "s", "q", "l", "i", "t", "e", "_" >>
        user == SelectSeq(db, LAMBDA t : ~(Len(t.name) >= 7 /\ SubSeq(t.name, 1, 7) = reserved))
    IN /\ Len(ldRet.tables) = Len(user)
       /\ \A i \in 1..Len(user) :
            /\ ldRet.tables[i].name = user[i].name
            /\ Len(ldRet.tables[i].columns) = Len(user[i].cols)
            /\ \A c \in 1..Len(user[i].cols) :
                 /\ ldRet.tables[i].columns[c].name = user[i].cols[c].name
                 /\ ldRet.tables[i].columns[c].type = user[i].cols[c].type
                 /\ ldRet.tables[i].columns[c].not_null = user[i].cols[c].notnull
                 /\ ldRet.tables[i].columns[c].is_primary_key = user[i].cols[c].pk

\* The entries of a table's foreign_keys list that stand for column s of the
\* declaration d.
FkEntries(list, d, s) ==
  { k \in 1..Len(list) :
      /\ list[k].column = d.from[s]
      /\ list[k].referenced_table = d.table
      /\ list[k].referenced_column = IF d.to = << >> THEN NoneV ELSE StrV(d.to[s]) }

\* C21 as stated: for every table of the schema and every foreign key
\* declared on it, the foreign_keys list holds exactly one entry for that
\* declaration (an entry for any of its columns), and a table without
\* declared foreign keys has an empty list.
C21_OneEntryPerKey ==
  (ldRet.op = "load_schema" /\ ldRet.ok) =>
    \A i \in 1..Len(ldRet.tables) :
      LET t == Lookup(db, ldRet.tables[i].name)
          list == ldRet.tables[i].foreign_keys
      IN /\ \A f \in 1..Len(t.fks) :
              Cardinality(UNION { FkEntries(list, t.fks[f], s) : s \in 1..Len(t.fks[f].from) }) = 1
         /\ t.fks = << >> => list = << >>

\* C21: for every table of the schema, the foreign_keys list holds exactly
\* one entry for every column of every foreign key declared on the table,
\* with that column, the referenced table and the referenced column of the
\* same position (null when the declaration names none), and no other
\* entry; a table without declared foreign keys has an empty list.
C21_ForeignKeys ==
  (ldRet.op = "load_schema" /\ ldRet.ok) =>
    \A i \in 1..Len(ldRet.tables) :
      LET t == Lookup(db, ldRet.tables[i].name)
          list == ldRet.tables[i].foreign_keys
          pairs == { << f, s >> \in (1..Len(t.fks)) \X (1..2) : s <= Len(t.fks[f].from) }
      IN /\ \A p \in pairs : Cardinality(FkEntries(list, t.fks[p[1]], p[2])) = 1
         /\ Len(list) = Cardinality(pairs)
         /\ t.fks = << >> => list = << >>

\* A schema was loaded from a store with the items table, whose list has
\* three entries: two for the two-column key and one with a null
\* referenced column.
C21_Witness ==
  /\ ldRet.op = "load_schema" /\ ldRet.ok
  /\ \E i \in 1..Len(ldRet.tables) :
       /\ Len(Lookup(db, ldRet.tables[i].name).fks) = 2
       /\ Len(ldRet.tables[i].foreign_keys) = 3
       /\ \E k \in 1..3 : ldRet.tables[i].foreign_keys[k].referenced_column = NoneV

\* C29: load_schema never runs its catalog queries on a closed connection:
\* called before a with-scope, inside one or after one has exited, it does
\* not fail and returns the schema of the store.
C29_UsableConnection ==
  ldRet.op = "load_schema" => ldRet.ok /\ ldRet.tables = SchemaOf(db)

(***************************************************************************)
(* Properties of the data command line (SpecCli).                          *)
(***************************************************************************)
\* C24: a run of a data-management subcommand returns 0 only if every
\* operation it performed succeeded, and returns 1 whenever an operation
\* failed with a handled failure, a download in which some split failed
\* included; without a subcommand the exit code is 1.
C24_ExitCode ==
  (cliRet.op = "dm_cli" /\ cliRet.returned) =>
    /\ cliRet.code = 0 => cliRet.failed = {}
    /\ cliRet.failed # {} => cliRet.code = 1
    /\ cliRet.args.command = "none" => cliRet.code = 1

\* C30: download processes the requested splits in the given order, 'all'
\* standing for train, dev, test; every requested split that the reachable
\* provider holds with an item in it is reported as downloaded; and
\* processing stops at the first failing split unless --continue-on-error
\* is set.
C30_Download ==
  (cliRet.op = "dm_cli" /\ cliRet.args.command = "download") =>
    /\ cliRet.attempted = SubSeq(cliRet.splits, 1, Len(cliRet.attempted))
    /\ \A i \in 1..Len(cliRet.attempted) :
         (/\ provUp
          /\ HfSplit(cliRet.attempted[i]) \in DOMAIN provider
          /\ provider[HfSplit(cliRet.attempted[i])] # << >>)
         => \E j \in 1..Len(cliRet.downloaded) : cliRet.downloaded[j] = cliRet.attempted[i]
    /\ cliRet.args.continue_on_error => cliRet.attempted = cliRet.splits
    /\ ~cliRet.args.continue_on_error =>
         \A i \in 1..Len(cliRet.attempted) :
           cliRet.attempted[i] \in cliRet.failed => i = Len(cliRet.attempted)

(***************************************************************************)
(* Properties of the schema command line (SpecSchemaCli).                  *)
(***************************************************************************)
\* C25: the schema command line returns 1 without extracting and without
\* writing a file when db_path is not an existing file, returns 1 when the
\* extraction or the writing raises, and returns 0 otherwise; on a run that
\* returns 0 the schema JSON is printed to standard output exactly when no
\* output file is named, and written to the output file exactly when one is.
C25_SchemaCli ==
  cliRet.op = "schema_cli" =>
    LET named == cliRet.output # NoneV /\ cliRet.output # StrV(<< >>)
    IN /\ cliRet.db_path \in { "missing", "directory" } =>
            /\ cliRet.code = 1
            /\ cliRet.extractions = 0
            /\ ~cliRet.written.some /\ ~cliRet.stdout.some
       /\ cliRet.raised => cliRet.code = 1 /\ ~cliRet.written.some /\ ~cliRet.stdout.some
       /\ (cliRet.db_path \notin { "missing", "directory" } /\ ~cliRet.raised) =>
            /\ cliRet.code = 0
            /\ cliRet.stdout.some <=> ~named
            /\ cliRet.written.some <=> named
            /\ ~named => cliRet.stdout.schema = SchemaOf(db)
            /\ named => cliRet.written.schema = SchemaOf(db)

\* A run on a store with a table wrote the schema to the named file and
\* printed nothing to standard output.
C25_Witness ==
  /\ cliRet.op = "schema_cli" /\ cliRet.code = 0
  /\ cliRet.output = StrV(<< "o" >>)
  /\ cliRet.written.some /\ Len(cliRet.written.schema) >= 1
  /\ ~cliRet.stdout.some

(***************************************************************************)
(* The two schema loaders on a converted example (SpecAgree).              *)
(***************************************************************************)
\* C28: when convert_example has converted an example and SchemaLoader has
\* loaded the schema of the store as it is now, the entry of the example's
\* table has the same columns, in the same order and with the same name,
\* type and is_primary_key flag, as the columns WikiSQLSchemaLoader builds
\* from the example.
C28_LoadersAgree ==
  (/\ convRet.op = "convert_example" /\ convRet.ok
   /\ ldRet.op = "load_schema" /\ ldRet.ok
   /\ ldRet.tables = SchemaOf(db)) =>
    LET want == GetColumnInfo(ExampleOf(convRet.batch[1]))
    IN \E i \in 1..Len(ldRet.tables) :
         LET got == ldRet.tables[i].columns
         IN /\ ldRet.tables[i].name = convRet.results[1].table_name
            /\ Len(got) = Len(want)
            /\ \A c \in 1..Len(want) :
                 /\ got[c].name = want[c].name
                 /\ got[c].type = want[c].type
                 /\ got[c].is_primary_key = want[c].is_primary_key

\* The example with a real and a date column was converted and the schema
\* loaded afterwards lists its table with a REAL column.
C28_Witness ==
  /\ convRet.op = "convert_example" /\ convRet.ok /\ convRet.batch = << "other" >>
  /\ ldRet.op = "load_schema" /\ ldRet.ok /\ ldRet.tables = SchemaOf(db)
  /\ \E i \in 1..Len(ldRet.tables) :
       /\ ldRet.tables[i].name = convRet.results[1].table_name
       /\ ldRet.tables[i].columns[1].type = "REAL"

(***************************************************************************)
(* Properties of SQLGenerator (SpecAgent).                                 *)
(***************************************************************************)
\* C22: generate never raises: when the chain fails, it returns a string
\* that starts with "Error generating SQL: "; when the service answers, it
\* returns the service's text unchanged.
C22_Generate ==
  agRet.op = "generate" =>
    /\ agRet.raised = "none"
    /\ agRet.chain.ok => agRet.out = agRet.chain.text
    /\ ~agRet.chain.ok =>
         /\ Len(agRet.out) >= Len(ErrorPrefix)
         /\ SubSeq(agRet.out, 1, Len(ErrorPrefix)) = ErrorPrefix

\* The service failed with a message and generate returned the prefixed
\* string.
C22_Witness ==
  /\ agRet.op = "generate" /\ ~agRet.chain.ok
  /\ agRet.chain.error = << "4", "2", "9" >>
  /\ agRet.out = ErrorPrefix \o << "4", "2", "9" >>

\* C23: constructing an SQLGenerator raises ValueError exactly when no
\* credential is configured (it is missing or empty), before a client or a
\* chain is built, whether or not the caller passes an llm; with a
\* credential it succeeds and the generator has its chain.
C23_Construct ==
  agRet.op = "init" =>
    LET configured == OPENAI_API_KEY # NoneV /\ OPENAI_API_KEY # StrV(<< >>)
    IN /\ agRet.raised = "ValueError" <=> ~configured
       /\ ~configured => agRet.llm = "none" /\ ~agRet.chain /\ ~generator.built
       /\ configured => agRet.raised = "none" /\ agRet.chain /\ generator.built

\* A construction with the caller's own llm failed for an empty credential.
C23_Witness ==
  /\ agRet.op = "init" /\ agRet.given = "own"
  /\ OPENAI_API_KEY = StrV(<< >>)
  /\ agRet.raised = "ValueError"

(***************************************************************************)
(* Properties of WikiSQLDataset (SpecData).                                *)
(***************************************************************************)
\* C7: load_split called again with the same split and limit returns the
\* identical list object without accessing the provider; calls with different
\* limits use different cache keys and return distinct list objects.
C7_CachedSplit ==
  /\ \A r1, r2 \in returned :
       (r1[1] = r2[1] /\ r1[2] = r2[2]) => r1[3] = r2[3]
  /\ \A r1, r2 \in returned :
       (r1[1] = r2[1] /\ r1[2] # r2[2]) =>
         /\ r1[3] # r2[3]
         /\ CacheKey(r1[1], r1[2]) # CacheKey(r2[1], r2[2])
  /\ (dsRet.op = "load_split" /\ dsRet.again) => dsRet.ok /\ ~dsRet.accessed

\* One split was loaded with two limits, and the last call repeated an earlier one.
C7_Witness ==
  /\ dsRet.op = "load_split" /\ dsRet.again /\ dsRet.ok
  /\ \E r1, r2 \in returned : r1[1] = r2[1] /\ r1[2] # r2[2]

\* The provider's name of a split.
ProviderSplit(split) == IF split = "dev" THEN "validation" ELSE split

\* C8: get_example(split, i) raises IndexError for i < 0 and for i >= N, the
\* size of the provider split; for 0 <= i < N it returns the example that is
\* element i of what load_split(split) without a limit returns.
C8_GetExample ==
  (/\ dsRet.op = "get_example"
   /\ dsLoaded
   /\ ProviderSplit(dsRet.split) \in DOMAIN provider) =>
    LET n == Len(provider[ProviderSplit(dsRet.split)])
        i == dsRet.index
        key == CacheKey(dsRet.split, None)
    IN /\ (i < 0 \/ i >= n) => ~dsRet.ok /\ dsRet.exc = "IndexError"
       /\ (0 <= i /\ i < n) =>
            /\ dsRet.ok
            /\ dsRet.items[1].ref = provider[ProviderSplit(dsRet.split)][i + 1].ref
            /\ key \in DOMAIN cache => dsRet.items[1] = heap[cache[key]][i + 1]

\* An example with a numeric id fetched from a split that was loaded whole.
C8_Witness ==
  /\ dsRet.op = "get_example" /\ dsRet.ok /\ dsRet.index = 1
  /\ CacheKey(dsRet.split, None) \in DOMAIN cache
  /\ provider[ProviderSplit(dsRet.split)][2].id.k = "float"

\* Whether the keyword occurs in the text when the case of letters is ignored:
\* both are compared in upper case.
OccursIgnoringCase(keyword, text) ==
  LET Up(c) == CASE c = "a" -> "A" [] c = "b" -> "B" [] c = "l" -> "L"
                 [] c = "o" -> "O" [] c = "w" -> "W" [] OTHER -> c
  IN \E off \in 0..(Len(text) - Len(keyword)) :
       \A j \in 1..Len(keyword) : Up(text[off + j]) = Up(keyword[j])

\* C11: search_examples returns, in split order, the first at most `limit`
\* examples of the split whose question contains the keyword, letters compared
\* without regard to case; the table and the query of an example play no part.
C11_SearchExamples ==
  (dsRet.op = "search_examples" /\ dsRet.ok) =>
    LET items == provider[ProviderSplit(dsRet.split)]
        hits == { i \in 1..Len(items) :
                    OccursIgnoringCase(dsRet.keyword, ExampleOf(items[i].ref).question) }
        nth(k) == CHOOSE i \in hits : Cardinality({ j \in hits : j < i }) = k - 1
        got == dsRet.items
    IN /\ Len(got) = Min(dsRet.limit.n, Cardinality(hits))
       /\ \A k \in 1..Len(got) : got[k].ref = items[nth(k)].ref

\* The keyword, written in another case than the questions, is found in more
\* than one question of the split and the limit lets the first one through.
C11_Witness ==
  /\ dsRet.op = "search_examples" /\ dsRet.ok
  /\ dsRet.keyword = << "A", "l" >> /\ dsRet.limit.n = 1
  /\ Len(provider[ProviderSplit(dsRet.split)]) = 3
  /\ Len(dsRet.items) = 1
  /\ dsRet.items[1].ref = provider[ProviderSplit(dsRet.split)][1].ref

\* C9: in load_split, get_example and search_examples an unknown split fails
\* with a ValueError that lists the valid splits and an out-of-range index
\* with an IndexError, both reaching the caller unchanged; only other
\* failures are wrapped in a RuntimeError.
C9_ErrorKinds ==
  (/\ dsRet.op \in {"load_split", "get_example", "search_examples"}
   /\ ~dsRet.ok) =>
    IF ~dsLoaded THEN dsRet.exc = "RuntimeError"
    ELSE IF ProviderSplit(dsRet.split) \notin DOMAIN provider
         THEN dsRet.exc = "ValueError" /\ dsRet.listed = DOMAIN provider
    ELSE dsRet.op = "get_example" /\ dsRet.exc = "IndexError"

\* C10: load_split returns the examples of the provider split named by the
\* split (dev is the provider's validation, other names are unchanged) in the
\* provider's order: all N of them without a limit, the first min(limit, N)
\* with one.
C10_LoadSplit ==
  (dsRet.op = "load_split" /\ dsRet.ok) =>
    LET items == provider[ProviderSplit(dsRet.split)]
        n == Len(items)
        want == IF dsRet.limit.some THEN Min(dsRet.limit.n, n) ELSE n
        got == heap[dsRet.obj]
    IN /\ Len(got) = want
       /\ \A i \in 1..want : got[i].ref = items[i].ref

\* A limit below the size of the split, and a limit above it.
C10_Witness ==
  /\ dsRet.op = "load_split" /\ dsRet.ok /\ dsRet.limit = Some(2)
  /\ Len(heap[dsRet.obj]) = 2
  /\ Len(provider[ProviderSplit(dsRet.split)]) = 3
  /\ \E r \in returned : r[2] = Some(4) /\ Len(heap[r[3]]) = 3

=============================================================================
